---- MODULE Spec2Model ----
(***************************************************************************)
(* comp-template: the template generator (TemplateManager), the string     *)
(* case utilities it substitutes with, the path validators it guards with  *)
(* and the file store it works on.                                         *)
(*                                                                         *)
(* Strings are TLA+ strings, taken apart with Len / SubSeq / \o, so that   *)
(* every conversion is computed character by character as the code does.   *)
(***************************************************************************)
EXTENDS Integers, Sequences, FiniteSets, TLC

(***************************************************************************)
(* Characters and strings                                                  *)
(***************************************************************************)

Lowers == "abcdefghijklmnopqrstuvwxyz"
Uppers == "ABCDEFGHIJKLMNOPQRSTUVWXYZ"
Digits == "0123456789"

\* the character at position i of s (s.charAt(i - 1))
CharAt(s, i) == SubSeq(s, i, i)

CharsOf(s) == { CharAt(s, i) : i \in 1..Len(s) }

LowerSet == CharsOf(Lowers)
UpperSet == CharsOf(Uppers)
DigitSet == CharsOf(Digits)

AlnumSet == LowerSet \cup UpperSet \cup DigitSet

\* [a-zA-Z0-9]
IsAlnum(c) == c \in AlnumSet

\* the white space characters (\s of a regular expression, and what trim
\* removes) that the strings here can hold
SpaceSet == {" ", "\t", "\n", "\r"}

IsSpace(c) == c \in SpaceSet

UpperOf == [c \in LowerSet |-> CharAt(Uppers, CHOOSE i \in 1..Len(Lowers) : CharAt(Lowers, i) = c)]

LowerOf == [c \in UpperSet |-> CharAt(Lowers, CHOOSE i \in 1..Len(Uppers) : CharAt(Uppers, i) = c)]

\* String.prototype.toUpperCase on one ASCII character
UpperChar(c) == IF c \in LowerSet THEN UpperOf[c] ELSE c

\* String.prototype.toLowerCase on one ASCII character
LowerChar(c) == IF c \in UpperSet THEN LowerOf[c] ELSE c

RECURSIVE ConcatRange(_, _, _)
\* the strings parts[lo] .. parts[hi] joined, by halves
ConcatRange(parts, lo, hi) ==
  IF lo > hi THEN ""
  ELSE IF lo = hi THEN parts[lo]
  ELSE LET mid == (lo + hi) \div 2
       IN  ConcatRange(parts, lo, mid) \o ConcatRange(parts, mid + 1, hi)

\* the strings of a sequence joined into one
Concat(parts) == ConcatRange(parts, 1, Len(parts))

\* String.prototype.toUpperCase
ToUpper(s) == Concat([i \in 1..Len(s) |-> UpperChar(CharAt(s, i))])

\* String.prototype.toLowerCase
ToLower(s) == Concat([i \in 1..Len(s) |-> LowerChar(CharAt(s, i))])

\* s.startsWith(p)
StartsWith(s, p) == Len(p) <= Len(s) /\ SubSeq(s, 1, Len(p)) = p

\* s.endsWith(p)
EndsWith(s, p) == Len(p) <= Len(s) /\ SubSeq(s, Len(s) - Len(p) + 1, Len(s)) = p

\* s.includes(p)
Includes(s, p) == \E i \in 1..(Len(s) - Len(p) + 1) : SubSeq(s, i, i + Len(p) - 1) = p

Min(S) == CHOOSE x \in S : \A y \in S : x <= y

Max(S) == CHOOSE x \in S : \A y \in S : y <= x

\* String.prototype.trim
Trim(s) ==
  LET kept == { i \in 1..Len(s) : ~IsSpace(CharAt(s, i)) }
  IN  IF kept = {} THEN "" ELSE SubSeq(s, Min(kept), Max(kept))

\* Array.prototype.join
JoinWith(words, sep) ==
  Concat([i \in 1..Len(words) |-> IF i = 1 THEN words[i] ELSE sep \o words[i]])

RECURSIVE FieldsFrom(_, _, _)
\* the maximal runs of characters of s outside seps from position from on
FieldsFrom(s, seps, from) ==
  LET starts == { i \in from..Len(s) : CharAt(s, i) \notin seps }
  IN  IF starts = {} THEN <<>>
      ELSE LET first == Min(starts)
               stops == { j \in first..Len(s) : CharAt(s, j) \in seps }
               last == IF stops = {} THEN Len(s) ELSE Min(stops) - 1
           IN  <<SubSeq(s, first, last)>> \o FieldsFrom(s, seps, last + 1)

\* the maximal runs of characters of s outside seps, in order
Fields(s, seps) == FieldsFrom(s, seps, 1)

\* s.split(/\s+/): an empty string before a leading and after a trailing
\* run of white space, and [""] for ""
SplitSpaces(s) ==
  (IF s = "" \/ IsSpace(CharAt(s, 1)) THEN <<"">> ELSE <<>>)
  \o Fields(s, SpaceSet)
  \o (IF s # "" /\ IsSpace(CharAt(s, Len(s))) THEN <<"">> ELSE <<>>)

RECURSIVE ReplaceFrom(_, _, _, _)
\* s.replace(/tok/g, val) from position from on, for a literal token: the
\* leftmost occurrence is replaced and the scan resumes after it
ReplaceFrom(s, tok, val, from) ==
  LET found == { i \in from..(Len(s) - Len(tok) + 1) : SubSeq(s, i, i + Len(tok) - 1) = tok }
  IN  IF found = {} THEN SubSeq(s, from, Len(s))
      ELSE SubSeq(s, from, Min(found) - 1) \o val
           \o ReplaceFrom(s, tok, val, Min(found) + Len(tok))

ReplaceAll(s, tok, val) == ReplaceFrom(s, tok, val, 1)

(***************************************************************************)
(* StringCase (utils.ts)                                                   *)
(***************************************************************************)

\* str.replace(/[^a-zA-Z0-9]/g, r)
NonAlnumTo(s, r) ==
  Concat([i \in 1..Len(s) |-> IF IsAlnum(CharAt(s, i)) THEN CharAt(s, i) ELSE r])

\* a space put before every capital letter, whatever stands before it
SpaceBeforeEveryCapital(s) ==
  Concat([i \in 1..Len(s) |->
            IF CharAt(s, i) \in UpperSet THEN " " \o CharAt(s, i) ELSE CharAt(s, i)])

\* str.replace(/([a-z])([A-Z])/g, "$1 $2"): a match ends in a capital, which
\* starts no other match, so every lower-upper pair is a match
SpaceBeforeCapitals(s) ==
  Concat([i \in 1..Len(s) |->
            IF i < Len(s) /\ CharAt(s, i) \in LowerSet /\ CharAt(s, i + 1) \in UpperSet
            THEN CharAt(s, i) \o " "
            ELSE CharAt(s, i)])

\* the common prefix of the word-splitting transformers:
\* replace, replace, trim, split(/\s+/)
SplitWords(str) == SplitSpaces(Trim(SpaceBeforeCapitals(NonAlnumTo(str, " "))))

\* word.charAt(0).toUpperCase() + word.slice(1).toLowerCase()
Capitalize(word) ==
  IF word = "" THEN "" ELSE UpperChar(CharAt(word, 1)) \o ToLower(SubSeq(word, 2, Len(word)))

\* words.map(word => capitalised / lower-cased / upper-cased word)
CapitalizeWords(words) == [i \in 1..Len(words) |-> Capitalize(words[i])]

LowerWords(words) == [i \in 1..Len(words) |-> ToLower(words[i])]

UpperWords(words) == [i \in 1..Len(words) |-> ToUpper(words[i])]

toPascalCase(str) == JoinWith(CapitalizeWords(SplitWords(str)), "")

toCamelCase(str) ==
  LET pascalCase == toPascalCase(str)
  IN  IF pascalCase = "" THEN ""
      ELSE LowerChar(CharAt(pascalCase, 1)) \o SubSeq(pascalCase, 2, Len(pascalCase))

toKebabCase(str) == JoinWith(LowerWords(SplitWords(str)), "-")

toSnakeCase(str) == JoinWith(LowerWords(SplitWords(str)), "_")

toConstantCase(str) == JoinWith(UpperWords(SplitWords(str)), "_")

toTitleCase(str) == JoinWith(CapitalizeWords(SplitWords(str)), " ")

toLowerCase(str) == ToLower(NonAlnumTo(str, ""))

\* ... .trim().toLowerCase().replace(/\s+/g, " ")
toLowerCaseWithSpaces(str) ==
  JoinWith(SplitSpaces(ToLower(Trim(SpaceBeforeCapitals(NonAlnumTo(str, " "))))), " ")

generateTemplateVariables(name) ==
  [ templateNameToPascalCase          |-> toPascalCase(name),
    templateNameToCamelCase           |-> toCamelCase(name),
    templateNameToDashCase            |-> toKebabCase(name),
    templateNameToSnakeCase           |-> toSnakeCase(name),
    templateNameToConstantCase        |-> toConstantCase(name),
    templateNameToTitleCase           |-> toTitleCase(name),
    templateNameToLowerCase           |-> toLowerCase(name),
    templateNameToLowerCaseWithSpaces |-> toLowerCaseWithSpaces(name) ]

replaceTemplateVariables(content, variables) ==
  LET r1 == ReplaceAll(content, "__templateNameToPascalCase__", variables.templateNameToPascalCase)
      r2 == ReplaceAll(r1, "__templateNameToCamelCase__", variables.templateNameToCamelCase)
      r3 == ReplaceAll(r2, "__templateNameToDashCase__", variables.templateNameToDashCase)
      r4 == ReplaceAll(r3, "__templateNameToSnakeCase__", variables.templateNameToSnakeCase)
      r5 == ReplaceAll(r4, "__templateNameToConstantCase__", variables.templateNameToConstantCase)
      r6 == ReplaceAll(r5, "__templateNameToTitleCase__", variables.templateNameToTitleCase)
      r7 == ReplaceAll(r6, "__templateNameToLowerCase__", variables.templateNameToLowerCase)
  IN  ReplaceAll(r7, "__templateNameToLowerCaseWithSpaces__",
                 variables.templateNameToLowerCaseWithSpaces)

(***************************************************************************)
(* path (POSIX), as the program uses it                                    *)
(***************************************************************************)

\* the working directory of the process
Cwd == "/w"

\* the segments of a path between its separators
Segments(p) == Fields(p, {"/"})

RECURSIVE NormalizeSegments(_, _, _)
\* resolve "." and ".." segments; above the start ".." is kept for a
\* relative path and dropped for an absolute one
NormalizeSegments(segs, acc, allowAboveRoot) ==
  IF segs = <<>> THEN acc
  ELSE LET s == Head(segs)
       IN  IF s = "." THEN NormalizeSegments(Tail(segs), acc, allowAboveRoot)
           ELSE IF s = ".."
                THEN IF acc # <<>> /\ acc[Len(acc)] # ".."
                     THEN NormalizeSegments(Tail(segs), SubSeq(acc, 1, Len(acc) - 1), allowAboveRoot)
                     ELSE IF allowAboveRoot
                          THEN NormalizeSegments(Tail(segs), Append(acc, ".."), allowAboveRoot)
                          ELSE NormalizeSegments(Tail(segs), acc, allowAboveRoot)
                ELSE NormalizeSegments(Tail(segs), Append(acc, s), allowAboveRoot)

\* path.normalize
PathNormalize(p) ==
  IF p = "" THEN "."
  ELSE LET isAbsolute == StartsWith(p, "/")
           trailingSeparator == EndsWith(p, "/")
           body == JoinWith(NormalizeSegments(Segments(p), <<>>, ~isAbsolute), "/")
       IN  IF body = ""
           THEN (IF isAbsolute THEN "/" ELSE IF trailingSeparator THEN "./" ELSE ".")
           ELSE (IF isAbsolute THEN "/" ELSE "") \o body
                \o (IF trailingSeparator THEN "/" ELSE "")

\* path.join(a, b)
PathJoin(a, b) ==
  IF a = "" /\ b = "" THEN "."
  ELSE IF a = "" THEN PathNormalize(b)
  ELSE IF b = "" THEN PathNormalize(a)
  ELSE PathNormalize(a \o "/" \o b)

\* path.resolve(p): absolute, normalized, without a trailing separator
PathResolve(p) ==
  LET full == IF StartsWith(p, "/") THEN p ELSE Cwd \o "/" \o p
  IN  "/" \o JoinWith(NormalizeSegments(Segments(full), <<>>, FALSE), "/")

\* path.basename(p)
PathBasename(p) ==
  LET segs == Segments(p) IN IF segs = <<>> THEN "" ELSE segs[Len(segs)]

\* path.dirname of a resolved path
PathDirname(p) ==
  LET segs == Segments(p)
  IN  IF Len(segs) <= 1 THEN "/" ELSE "/" \o JoinWith(SubSeq(segs, 1, Len(segs) - 1), "/")

(***************************************************************************)
(* Validators (validators.ts)                                              *)
(***************************************************************************)

\* stands for the character "\0", which a TLA+ string cannot hold
NUL == "\f"

MaxNameLength == 100

\* the check without the home-directory test
validatePathNoTilde(inputPath) ==
  LET normalizedPath == PathNormalize(inputPath)
  IN  IF Includes(normalizedPath, "..") \/ StartsWith(normalizedPath, "/")
      THEN "Invalid path: \"" \o inputPath \o "\" contains directory traversal characters"
      ELSE IF Includes(inputPath, NUL)
      THEN "Invalid path: \"" \o inputPath \o "\" contains null bytes"
      ELSE ""

\* Validators.validatePath: "" when the path is accepted, else the message
\* of the Error it throws
validatePath(inputPath) ==
  LET normalizedPath == PathNormalize(inputPath)
  IN  IF \/ Includes(normalizedPath, "..")
         \/ StartsWith(normalizedPath, "/")
         \/ StartsWith(normalizedPath, "~")
      THEN "Invalid path: \"" \o inputPath \o "\" contains directory traversal characters"
      ELSE IF Includes(inputPath, NUL)
      THEN "Invalid path: \"" \o inputPath \o "\" contains null bytes"
      ELSE ""

\* Validators.isPathWithinDirectory
isPathWithinDirectory(filePath, allowedDir) ==
  StartsWith(PathResolve(filePath), PathResolve(allowedDir))

reservedNames ==
  { "con", "prn", "aux", "nul", "com1", "com2", "com3", "com4", "com5", "com6",
    "com7", "com8", "com9", "lpt1", "lpt2", "lpt3", "lpt4", "lpt5", "lpt6",
    "lpt7", "lpt8", "lpt9" }

\* /^[a-zA-Z0-9\s\-_]+$/
validNameRegex(s) ==
  /\ s # ""
  /\ \A i \in 1..Len(s) :
       LET ch == CharAt(s, i) IN IsAlnum(ch) \/ IsSpace(ch) \/ ch = "-" \/ ch = "_"

\* Validators.validateTemplateName: "" when the name is accepted, else the
\* message of the Error it throws
validateTemplateName(name) ==
  LET trimmedName == Trim(name)
  IN  IF Len(trimmedName) = 0 THEN "Name cannot be empty"
      ELSE IF Len(trimmedName) > MaxNameLength THEN "Name cannot exceed 100 characters"
      ELSE IF ~validNameRegex(trimmedName)
      THEN "Name can only contain letters, numbers, spaces, hyphens, and underscores"
      ELSE IF ToLower(trimmedName) \in reservedNames
      THEN "\"" \o trimmedName \o "\" is a reserved system name"
      ELSE ""

(***************************************************************************)
(* The file store: a function from resolved paths to nodes.  A directory   *)
(* keeps its entries in listing order.                                     *)
(***************************************************************************)

DirNode(entries) == [kind |-> "dir", entries |-> entries, content |-> ""]

FileNode(content) == [kind |-> "file", entries |-> <<>>, content |-> content]

EmptyFs == ("/" :> DirNode(<<>>))

\* the resolved path of entry name in directory dir
Child(dir, name) == IF dir = "/" THEN "/" \o name ELSE dir \o "/" \o name

Exists(store, p) == PathResolve(p) \in DOMAIN store

IsDir(store, p) == Exists(store, p) /\ store[PathResolve(p)].kind = "dir"

IsFile(store, p) == Exists(store, p) /\ store[PathResolve(p)].kind = "file"

\* add node at the resolved path key, listing it in its parent directory
AddNode(store, key, node) ==
  LET parent == PathDirname(key)
      listed == [store EXCEPT ![parent].entries = Append(@, PathBasename(key))]
  IN  listed @@ (key :> node)

RECURSIVE MkdirFrom(_, _, _)
\* create the directories segs one below the other under base; stops at the
\* first segment that exists and is not a directory
MkdirFrom(store, base, segs) ==
  IF segs = <<>> THEN [ok |-> TRUE, store |-> store]
  ELSE LET key == Child(base, Head(segs))
       IN  IF key \in DOMAIN store
           THEN IF store[key].kind = "dir"
                THEN MkdirFrom(store, key, Tail(segs))
                ELSE [ok |-> FALSE, store |-> store]
           ELSE MkdirFrom(AddNode(store, key, DirNode(<<>>)), key, Tail(segs))

\* fs.mkdir(dirPath, { recursive: true })
Mkdir(store, dirPath) == MkdirFrom(store, "/", Segments(PathResolve(dirPath)))

\* fs.writeFile(filePath, content)
Write(store, filePath, content) ==
  LET key == PathResolve(filePath)
  IN  IF key \in DOMAIN store
      THEN IF store[key].kind = "file"
           THEN [ok |-> TRUE, store |-> [store EXCEPT ![key].content = content]]
           ELSE [ok |-> FALSE, store |-> store]
      ELSE IF IsDir(store, PathDirname(key))
           THEN [ok |-> TRUE, store |-> AddNode(store, key, FileNode(content))]
           ELSE [ok |-> FALSE, store |-> store]

RECURSIVE countFiles(_, _)
\* TemplateManager.countFiles: the number of files below templatePath
\* (-1 when a stat or readdir on the way fails)
countFiles(store, templatePath) ==
  IF ~Exists(store, templatePath) THEN -1
  ELSE IF ~IsDir(store, templatePath) THEN 1
  ELSE LET items == store[PathResolve(templatePath)].entries
           counts == [i \in 1..Len(items) |-> countFiles(store, PathJoin(templatePath, items[i]))]
           Sum[i \in 0..Len(items)] == IF i = 0 THEN 0 ELSE Sum[i - 1] + counts[i]
       IN  IF \E i \in 1..Len(items) : counts[i] < 0 THEN -1 ELSE Sum[Len(items)]

(***************************************************************************)
(* The worlds the program is run in: a templates directory, the names the  *)
(* caller may pass and the directory it generates into.                    *)
(***************************************************************************)

\* constructor default of TemplateManager
TemplatesDir == ".template"

Dir(p) == [path |-> p, kind |-> "dir", content |-> ""]

File(p, content) == [path |-> p, kind |-> "file", content |-> content]

RECURSIVE BuildFs(_, _)
\* the store after the entries were created in order
BuildFs(store, entries) ==
  IF entries = <<>> THEN store
  ELSE LET e == Head(entries)
           next == IF e.kind = "dir" THEN Mkdir(store, e.path).store
                   ELSE Write(store, e.path, e.content).store
       IN  BuildFs(next, Tail(entries))

\* README "Generate a Utility Function": the file template util.ts, the
\* name "date helper", the output directory src/utils (not yet there)
WorldUtil ==
  [ store |-> BuildFs(EmptyFs, << Dir("."), Dir(".template"),
                 File(".template/util.ts", "export const __templateNameToCamelCase__ = 1;") >>),
    templateNames |-> {"util.ts", "missing.ts", "/etc"},
    targetNames |-> {"date helper"},
    targetDir |-> "src/utils" ]

\* a directory template with a nested directory; for the name "foo" its
\* first two entries substitute to the same file name
WorldComponent ==
  [ store |-> BuildFs(EmptyFs, << Dir("."), Dir(".template"), Dir(".template/comp"),
                 File(".template/comp/__templateNameToPascalCase__.tsx",
                      "const __templateNameToPascalCase__ = '__templateNameToDashCase__';"),
                 File(".template/comp/Foo.tsx", "static"),
                 Dir(".template/comp/sub"),
                 File(".template/comp/sub/index.ts", "__templateNameToConstantCase__"),
                 Dir("out") >>),
    templateNames |-> {"comp", "../.template/comp"},
    targetNames |-> {"foo", "test button"},
    targetDir |-> "out" ]

\* the single-file template of the idempotence example, whose own name is
\* a placeholder
WorldWidget ==
  [ store |-> BuildFs(EmptyFs, << Dir("."), Dir(".template"),
                 File(".template/__templateNameToPascalCase__.txt", "__templateNameToPascalCase__"),
                 Dir("out") >>),
    templateNames |-> {"__templateNameToPascalCase__.txt", "~x"},
    targetNames |-> {"My Widget", ""},
    targetDir |-> "out" ]

\* a directory template with an entry whose name is a placeholder followed
\* by two dots, and names without any alphanumeric character
WorldDots ==
  [ store |-> BuildFs(EmptyFs, << Dir("."), File("x.txt", "keep"), Dir(".template"),
                 Dir(".template/esc"),
                 File(".template/esc/a.txt", "A"),
                 Dir(".template/esc/__templateNameToPascalCase__.."),
                 File(".template/esc/__templateNameToPascalCase__../x.txt", "X"),
                 Dir("out") >>),
    templateNames |-> {"esc", "a" \o NUL \o "b"},
    targetNames |-> {"-", "My@Component"},
    targetDir |-> "out" ]

Worlds == {WorldUtil, WorldComponent, WorldWidget, WorldDots}

(***************************************************************************)
(* State                                                                   *)
(***************************************************************************)

\* the number of generateFromTemplate invocations in a behaviour
MaxCalls == 2

\* the number of file-store operations that fail for an outside reason
\* (permission denied, disk full) in a behaviour
MaxFaults == 1

CallIds == 1..MaxCalls

VARIABLES
  world,           \* the world chosen at the start (never changes)
  fs,              \* the file store
  generatedFiles,  \* TemplateManager.generatedFiles
  progress,        \* TemplateManager.progress (active = FALSE: null)
  calls,           \* the invocations of generateFromTemplate, in order; of those
                   \* that ended only the latest two are remembered
  faults,          \* the file-store operations failed from outside so far
  listing,         \* the invocation of listTemplates
  sample,          \* the text a pure function is applied to, and what it gave
  validation,      \* the invocation of TemplateValidator.validate or validateAll
  copying,         \* the invocation of FileUtils.copy
  cli              \* the invocation of Commands.executeGeneration

vars ==
  <<world, fs, generatedFiles, progress, calls, faults, listing, sample, validation, copying,
    cli>>

\* what generateFromTemplate never touches
outsideManager == <<listing, sample, validation, copying, cli>>

\* what listTemplates never touches
outsideListing == <<generatedFiles, progress, calls, sample, validation, copying, cli>>

\* what a pure function never touches
outsideSample ==
  <<world, fs, generatedFiles, progress, calls, faults, listing, validation, copying, cli>>

\* what TemplateValidator never touches
outsideValidator ==
  <<world, fs, generatedFiles, progress, calls, listing, sample, copying, cli>>

NoFile == [sourcePath |-> "", targetDir |-> "", fileName |-> "", content |-> "", targetPath |-> ""]

NoVariables == generateTemplateVariables("")

IdleCall ==
  [ pc |-> "idle", templateName |-> "", targetName |-> "", targetDir |-> "",
    dryRun |-> FALSE, templatePath |-> "", variables |-> NoVariables,
    error |-> "", stack |-> <<>>, file |-> NoFile,
    ops |-> <<>>,         \* the file-store operations of the call, in order
    writes |-> <<>>,      \* the files it wrote, in order
    fsBefore |-> EmptyFs, \* the file store when it was called
    result |-> <<>> ]     \* getGeneratedFiles() when it ended

\* listTemplates not called yet
IdleListing ==
  [ pc |-> "idle",
    items |-> <<>>,      \* const items = await readdir(this.templatesDir)
    idx |-> 0,           \* the position of the for loop in items
    templates |-> <<>>,  \* const templates: Template[] = []
    ops |-> <<>>,        \* the file-store operations of the invocation, in order
    result |-> <<>> ]    \* the list it returned

\* const result: ValidationResult = { valid: true, errors: [], warnings: [] }
NewResult == [valid |-> TRUE, errors |-> <<>>, warnings |-> <<>>]

\* TemplateValidator not called yet
IdleValidation ==
  [ pc |-> "idle",
    all |-> FALSE,         \* whether validateAll is running
    templates |-> <<>>,    \* validateAll: const templates = await readdir(templatesDir)
    idx |-> 0,             \* validateAll: the position of the for loop
    results |-> <<>>,      \* validateAll: the entries of the map, in insertion order
    templatePath |-> "",   \* validate: its argument
    stack |-> <<>>,        \* validate: the directories being walked
    filePath |-> "",       \* validateFile: its argument
    result |-> NewResult,  \* validate: the result under construction
    ops |-> <<>>,          \* the file-store operations of the validate call, in order
    returned |-> <<>> ]    \* the results validate returned, in order

\* FileUtils.copy not called yet
IdleCopy ==
  [ pc |-> "idle",
    source |-> "", destination |-> "",
    overwrite |-> "undefined",  \* options.overwrite: "undefined", "true" or "false"
    stack |-> <<>>,             \* copyDirectory: the directories being copied
    file |-> [source |-> "", destination |-> ""],  \* copyFile: its arguments
    ops |-> <<>> ]              \* the file-store operations of the call, in order

\* Commands.executeGeneration not called yet
IdleCli ==
  [ pc |-> "idle",
    templateName |-> "", componentName |-> "",  \* the answers to the prompts
    selectedDirectory |-> "",
    dryRun |-> FALSE,
    proceed |-> FALSE ]

\* a new TemplateManager in one of the worlds of W
InitIn(W) ==
  /\ world \in W
  /\ fs = world.store
  /\ generatedFiles = <<>>
  /\ progress = [active |-> FALSE, totalSteps |-> 0, currentStep |-> 0]
  /\ calls = [c \in CallIds |-> IdleCall]
  /\ faults = 0
  /\ listing = IdleListing
  /\ validation = IdleValidation
  /\ copying = IdleCopy
  /\ cli = IdleCli

\* no pure function under study
IdleSample == [pc |-> "idle"]

Init == InitIn(Worlds) /\ sample = IdleSample

Finished(c) == calls[c].pc \in {"done", "failed", "forgotten"}

Forgotten == [IdleCall EXCEPT !.pc = "forgotten"]

\* whether the next file-store operation may fail from outside
FaultChoices == IF faults < MaxFaults THEN {FALSE, TRUE} ELSE {FALSE}

Op(name, path, ok) == [op |-> name, path |-> path, ok |-> ok]

\* the failure caught and dropped: the call stays where it is and goes on
RejectedSwallowed(call, name, path, message) ==
  [call EXCEPT !.ops = Append(@, Op(name, path, FALSE))]

\* the call after operation name on path failed: the rejection propagates
\* to the caller of generateFromTemplate, who may then read the list of
\* generated files
Rejected(call, name, path, message) ==
  [call EXCEPT !.pc = "failed", !.error = message,
               !.ops = Append(@, Op(name, path, FALSE)),
               !.result = generatedFiles]

(***************************************************************************)
(* generateFromTemplate                                                    *)
(***************************************************************************)

\* the message without the name of the template
NotFoundMessageBare(templateName) == "Template not found"

\* the message of `Template "${templateName}" not found`
NotFoundMessage(templateName) == "Template \"" \o templateName \o "\" not found"

\* the synchronous head of generateFromTemplate, up to the first await
Start(c, templateName, targetName, dryRun) ==
  /\ calls[c].pc = "idle"
  /\ \A d \in CallIds : d < c => Finished(d)
  /\ LET pathError == validatePath(templateName)
         templatePath == PathJoin(TemplatesDir, templateName)
         begun == [IdleCall EXCEPT !.templateName = templateName,
                                   !.targetName = targetName,
                                   !.targetDir = world.targetDir,
                                   !.dryRun = dryRun,
                                   !.fsBefore = fs]
         entered ==
           IF pathError # ""
           THEN [begun EXCEPT !.pc = "failed", !.error = pathError,
                              !.result = generatedFiles]
           ELSE IF ~isPathWithinDirectory(templatePath, TemplatesDir)
           THEN [begun EXCEPT !.pc = "failed",
                              !.error = "Invalid template path: \"" \o templateName \o "\"",
                              !.result = generatedFiles]
           ELSE [begun EXCEPT !.pc = "checkExists",
                              !.templatePath = templatePath,
                              !.variables = generateTemplateVariables(targetName)]
     IN  calls' = [d \in CallIds |-> IF d = c THEN entered
                                     ELSE IF d < c - 1 THEN Forgotten
                                     ELSE calls[d]]
  /\ UNCHANGED <<world, fs, generatedFiles, progress, faults, outsideManager>>

\* await FileUtils.pathExists(templatePath), then the reset of the list
CheckExists(c) ==
  /\ calls[c].pc = "checkExists"
  /\ LET call == calls[c]
         logged == [call EXCEPT !.ops = Append(@, Op("access", call.templatePath, TRUE))]
     IN  IF ~Exists(fs, call.templatePath)
         THEN /\ calls' = [calls EXCEPT ![c] =
                    [logged EXCEPT !.pc = "failed",
                                   !.error = NotFoundMessage(call.templateName),
                                   !.result = generatedFiles]]
              /\ UNCHANGED generatedFiles
         ELSE /\ calls' = [calls EXCEPT ![c] =
                    [logged EXCEPT !.pc = IF call.dryRun THEN "statRoot" ELSE "count"]]
              /\ generatedFiles' = <<>>
  /\ UNCHANGED <<world, fs, progress, faults, outsideManager>>

Frame(sourcePath, targetDir) ==
  [sourcePath |-> sourcePath, targetDir |-> targetDir, items |-> <<>>, idx |-> 0]

Top(call) == call.stack[Len(call.stack)]

RECURSIVE Advance(_)
\* the for loop of processDirectory after an item is done: the next item of
\* the innermost directory, or the return to the directory above it; with
\* no directory left generateFromTemplate runs to its end
Advance(stack) ==
  IF stack = <<>> THEN [stack |-> <<>>, pc |-> "finish"]
  ELSE LET top == stack[Len(stack)]
       IN  IF top.idx < Len(top.items)
           THEN [stack |-> [stack EXCEPT ![Len(stack)].idx = top.idx + 1], pc |-> "stat"]
           ELSE Advance(SubSeq(stack, 1, Len(stack) - 1))

\* the call after the walk moved on; files is the list of generated files,
\* which the caller gets from getGeneratedFiles once the call has returned
Settle(call, adv, files) ==
  [call EXCEPT !.stack = adv.stack,
               !.pc = IF adv.pc = "finish" THEN "done" ELSE adv.pc,
               !.result = IF adv.pc = "finish" THEN files ELSE <<>>]

\* progress.complete at the end of a generation that is not a dry run
Completed(prog, call, adv) ==
  IF adv.pc = "finish" /\ ~call.dryRun /\ prog.active
  THEN [prog EXCEPT !.currentStep = prog.totalSteps]
  ELSE prog

\* the guard dropped: a dry run writes too
MutatesAlways(call) == TRUE

\* whether the walk touches the file store: if (!options.dryRun)
Mutates(call) == ~call.dryRun

\* const totalFiles = await this.countFiles(templatePath); new ProgressIndicator
CountFiles(c) ==
  /\ calls[c].pc = "count"
  /\ \E fault \in FaultChoices :
       LET call == calls[c]
           totalFiles == countFiles(fs, call.templatePath)
       IN  IF fault \/ totalFiles < 0
           THEN /\ calls' = [calls EXCEPT ![c] = Rejected(call, "stat", call.templatePath, "EACCES")]
                /\ faults' = IF fault THEN faults + 1 ELSE faults
                /\ UNCHANGED progress
           ELSE /\ calls' = [calls EXCEPT ![c] =
                      [call EXCEPT !.pc = "statRoot",
                                   !.ops = Append(@, Op("countFiles", call.templatePath, TRUE))]]
                /\ progress' = [active |-> TRUE, totalSteps |-> totalFiles, currentStep |-> 0]
                /\ UNCHANGED faults
  /\ UNCHANGED <<world, fs, generatedFiles, outsideManager>>

\* const stats = await stat(templatePath), and the branch on isDirectory()
StatRoot(c) ==
  /\ calls[c].pc = "statRoot"
  /\ \E fault \in FaultChoices :
       LET call == calls[c]
           logged == [call EXCEPT !.ops = Append(@, Op("stat", call.templatePath, TRUE))]
           componentDir == PathJoin(call.targetDir, call.variables.templateNameToPascalCase)
       IN  IF fault \/ ~Exists(fs, call.templatePath)
           THEN /\ calls' = [calls EXCEPT ![c] = Rejected(call, "stat", call.templatePath, "EACCES")]
                /\ faults' = IF fault THEN faults + 1 ELSE faults
           ELSE /\ calls' = [calls EXCEPT ![c] =
                      IF IsDir(fs, call.templatePath)
                      THEN [logged EXCEPT !.stack = <<Frame(call.templatePath, componentDir)>>,
                                          !.pc = IF Mutates(call) THEN "ensureDir" ELSE "readdir"]
                      ELSE [logged EXCEPT !.file = [NoFile EXCEPT !.sourcePath = call.templatePath,
                                                                  !.targetDir = call.targetDir],
                                          !.pc = "readFile"]]
                /\ UNCHANGED faults
  /\ UNCHANGED <<world, fs, generatedFiles, progress, outsideManager>>

\* await FileUtils.ensureDir(componentDir) and, for a nested directory,
\* await FileUtils.ensureDir(targetItemPath)
EnsureDir(c) ==
  /\ calls[c].pc = "ensureDir"
  /\ \E fault \in FaultChoices :
       LET call == calls[c]
           dirPath == Top(call).targetDir
           made == Mkdir(fs, dirPath)
       IN  IF fault \/ ~made.ok
           THEN /\ calls' = [calls EXCEPT ![c] = Rejected(call, "mkdir", dirPath, "EEXIST")]
                /\ faults' = IF fault THEN faults + 1 ELSE faults
                /\ fs' = IF fault THEN fs ELSE made.store
           ELSE /\ calls' = [calls EXCEPT ![c] =
                      [call EXCEPT !.pc = "readdir",
                                   !.ops = Append(@, Op("mkdir", dirPath, TRUE))]]
                /\ fs' = made.store
                /\ UNCHANGED faults
  /\ UNCHANGED <<world, generatedFiles, progress, outsideManager>>

\* processDirectory: const items = await readdir(sourcePath)
Readdir(c) ==
  /\ calls[c].pc = "readdir"
  /\ \E fault \in FaultChoices :
       LET call == calls[c]
           sourcePath == Top(call).sourcePath
       IN  IF fault \/ ~IsDir(fs, sourcePath)
           THEN /\ calls' = [calls EXCEPT ![c] = Rejected(call, "readdir", sourcePath, "ENOTDIR")]
                /\ faults' = IF fault THEN faults + 1 ELSE faults
                /\ UNCHANGED progress
           ELSE LET items == fs[PathResolve(sourcePath)].entries
                    listed == [call EXCEPT !.stack[Len(call.stack)].items = items,
                                           !.ops = Append(@, Op("readdir", sourcePath, TRUE))]
                    adv == Advance(listed.stack)
                IN  /\ calls' = [calls EXCEPT ![c] = Settle(listed, adv, generatedFiles)]
                    /\ progress' = Completed(progress, call, adv)
                    /\ UNCHANGED faults
  /\ UNCHANGED <<world, fs, generatedFiles, outsideManager>>

\* processDirectory, one item: the names, await stat(sourceItemPath), and
\* the branch on isDirectory()
StatItem(c) ==
  /\ calls[c].pc = "stat"
  /\ \E fault \in FaultChoices :
       LET call == calls[c]
           top == Top(call)
           item == top.items[top.idx]
           sourceItemPath == PathJoin(top.sourcePath, item)
           targetItemName == replaceTemplateVariables(item, call.variables)
           targetItemPath == PathJoin(top.targetDir, targetItemName)
           logged == [call EXCEPT !.ops = Append(@, Op("stat", sourceItemPath, TRUE))]
       IN  IF fault \/ ~Exists(fs, sourceItemPath)
           THEN /\ calls' = [calls EXCEPT ![c] = Rejected(call, "stat", sourceItemPath, "ENOENT")]
                /\ faults' = IF fault THEN faults + 1 ELSE faults
           ELSE /\ calls' = [calls EXCEPT ![c] =
                      IF IsDir(fs, sourceItemPath)
                      THEN [logged EXCEPT !.stack = Append(@, Frame(sourceItemPath, targetItemPath)),
                                          !.pc = IF Mutates(call) THEN "ensureDir" ELSE "readdir"]
                      ELSE [logged EXCEPT !.file = [NoFile EXCEPT !.sourcePath = sourceItemPath,
                                                                  !.targetDir = top.targetDir,
                                                                  !.fileName = targetItemName],
                                          !.pc = "readFile"]]
                /\ UNCHANGED faults
  /\ UNCHANGED <<world, fs, generatedFiles, progress, outsideManager>>

\* the base name of the source taken as it is, without the substitution
TargetFileNameRaw(file, variables) ==
  IF file.fileName # "" THEN file.fileName ELSE PathBasename(file.sourcePath)

\* the target path of processFile: targetFileName when it is given (not
\* undefined and not ""), else the substituted base name of the source
TargetFileName(file, variables) ==
  IF file.fileName # "" THEN file.fileName
  ELSE replaceTemplateVariables(PathBasename(file.sourcePath), variables)

\* processFile: await readFile(sourcePath, "utf-8"), the substitution and
\* the target path
ReadFile(c) ==
  /\ calls[c].pc = "readFile"
  /\ \E fault \in FaultChoices :
       LET call == calls[c]
           sourcePath == call.file.sourcePath
       IN  IF fault \/ ~IsFile(fs, sourcePath)
           THEN /\ calls' = [calls EXCEPT ![c] = Rejected(call, "readFile", sourcePath, "EACCES")]
                /\ faults' = IF fault THEN faults + 1 ELSE faults
           ELSE LET content == fs[PathResolve(sourcePath)].content
                    processedContent == replaceTemplateVariables(content, call.variables)
                    fileName == TargetFileName(call.file, call.variables)
                    targetPath == PathJoin(call.file.targetDir, fileName)
                IN  /\ calls' = [calls EXCEPT ![c] =
                          [call EXCEPT !.file.content = processedContent,
                                       !.file.fileName = fileName,
                                       !.file.targetPath = targetPath,
                                       !.ops = Append(@, Op("readFile", sourcePath, TRUE)),
                                       !.pc = "exists"]]
                    /\ UNCHANGED faults
  /\ UNCHANGED <<world, fs, generatedFiles, progress, outsideManager>>

\* every file classified as new
ClassifyCreate(fileExists) == "create"

\* const action = fileExists ? "overwrite" : "create"
Classify(fileExists) == IF fileExists THEN "overwrite" ELSE "create"

\* processFile: await FileUtils.pathExists(targetPath), the classification
\* and this.generatedFiles.push
PathExistsTarget(c) ==
  /\ calls[c].pc = "exists"
  /\ LET call == calls[c]
         targetPath == call.file.targetPath
         fileExists == Exists(fs, targetPath)
         files == Append(generatedFiles, [path |-> targetPath, action |-> Classify(fileExists)])
         logged == [call EXCEPT !.ops = Append(@, Op("access", targetPath, TRUE))]
         adv == Advance(call.stack)
     IN  /\ generatedFiles' = files
         /\ IF Mutates(call)
            THEN /\ calls' = [calls EXCEPT ![c] = [logged EXCEPT !.pc = "ensureFileDir"]]
                 /\ UNCHANGED progress
            ELSE /\ calls' = [calls EXCEPT ![c] = Settle(logged, adv, files)]
                 /\ progress' = Completed(progress, call, adv)
  /\ UNCHANGED <<world, fs, faults, outsideManager>>

\* processFile: await FileUtils.ensureDir(targetDir)
EnsureFileDir(c) ==
  /\ calls[c].pc = "ensureFileDir"
  /\ \E fault \in FaultChoices :
       LET call == calls[c]
           dirPath == call.file.targetDir
           made == Mkdir(fs, dirPath)
       IN  IF fault \/ ~made.ok
           THEN /\ calls' = [calls EXCEPT ![c] = Rejected(call, "mkdir", dirPath, "EEXIST")]
                /\ faults' = IF fault THEN faults + 1 ELSE faults
                /\ fs' = IF fault THEN fs ELSE made.store
           ELSE /\ calls' = [calls EXCEPT ![c] =
                      [call EXCEPT !.pc = "write",
                                   !.ops = Append(@, Op("mkdir", dirPath, TRUE))]]
                /\ fs' = made.store
                /\ UNCHANGED faults
  /\ UNCHANGED <<world, generatedFiles, progress, outsideManager>>

\* the counter advanced by two for a file
IncrementedTwice(prog) ==
  IF prog.active THEN [prog EXCEPT !.currentStep = prog.currentStep + 2] ELSE prog

\* progress.increment
Incremented(prog) ==
  IF prog.active THEN [prog EXCEPT !.currentStep = prog.currentStep + 1] ELSE prog

\* processFile: await writeFile(targetPath, processedContent) and
\* this.progress.increment(fileName)
WriteFile(c) ==
  /\ calls[c].pc = "write"
  /\ \E fault \in FaultChoices :
       LET call == calls[c]
           targetPath == call.file.targetPath
           written == Write(fs, targetPath, call.file.content)
       IN  IF fault \/ ~written.ok
           THEN /\ calls' = [calls EXCEPT ![c] = Rejected(call, "writeFile", targetPath, "EISDIR")]
                /\ faults' = IF fault THEN faults + 1 ELSE faults
                /\ UNCHANGED <<fs, progress>>
           ELSE LET logged == [call EXCEPT
                                 !.ops = Append(@, Op("writeFile", targetPath, TRUE)),
                                 !.writes = Append(@, [path |-> targetPath,
                                                       content |-> call.file.content])]
                    adv == Advance(call.stack)
                IN  /\ calls' = [calls EXCEPT ![c] = Settle(logged, adv, generatedFiles)]
                    /\ fs' = written.store
                    /\ progress' = Completed(Incremented(progress), call, adv)
                    /\ UNCHANGED faults
  /\ UNCHANGED <<world, generatedFiles, outsideManager>>

Next ==
  \E c \in CallIds :
    \/ \E templateName \in world.templateNames, targetName \in world.targetNames,
          dryRun \in BOOLEAN : Start(c, templateName, targetName, dryRun)
    \/ CheckExists(c)
    \/ CountFiles(c)
    \/ StatRoot(c)
    \/ EnsureDir(c)
    \/ Readdir(c)
    \/ StatItem(c)
    \/ ReadFile(c)
    \/ PathExistsTarget(c)
    \/ EnsureFileDir(c)
    \/ WriteFile(c)

Spec == Init /\ [][Next]_vars

(***************************************************************************)
(* listTemplates                                                           *)
(***************************************************************************)

\* the number of templates removed from the templates directory by someone
\* else in a behaviour
MaxRemovals == 1

\* a templates directory with a directory template, a file template and a
\* second directory template
WorldCatalog ==
  [ store |-> BuildFs(EmptyFs,
      << Dir(".template/button"),
         File(".template/button/index.tsx", "__templateNameToPascalCase__"),
         File(".template/util.ts", "x"),
         Dir(".template/card"),
         Dir(".template/card/nested"),
         File(".template/card/nested/deep.txt", "y") >>),
    templateNames |-> {"button"},
    targetNames |-> {"a"},
    targetDir |-> "out" ]

\* no templates directory
WorldBare ==
  [ store |-> BuildFs(EmptyFs, << Dir("out") >>),
    templateNames |-> {"button"},
    targetNames |-> {"a"},
    targetDir |-> "out" ]

\* an empty templates directory
WorldEmpty ==
  [ store |-> BuildFs(EmptyFs, << Dir(".template") >>),
    templateNames |-> {"button"},
    targetNames |-> {"a"},
    targetDir |-> "out" ]

ListWorlds == {WorldCatalog, WorldBare, WorldEmpty, WorldComponent}

\* store without the node at path p and without everything below it
Remove(store, p) ==
  LET key == PathResolve(p)
      parent == PathDirname(key)
      name == PathBasename(key)
      kept == { k \in DOMAIN store : k # key /\ ~StartsWith(k, key \o "/") }
  IN  [k \in kept |->
         IF k = parent
         THEN [store[k] EXCEPT !.entries = SelectSeq(@, LAMBDA e : e # name)]
         ELSE store[k]]

\* the immediate children of the templates directory at the start
TemplateItems ==
  IF IsDir(world.store, TemplatesDir)
  THEN LET entries == world.store[PathResolve(TemplatesDir)].entries
       IN  { entries[i] : i \in 1..Len(entries) }
  ELSE {}

\* the templates removed so far
Removals ==
  IF IsDir(world.store, TemplatesDir) /\ IsDir(fs, TemplatesDir)
  THEN Len(world.store[PathResolve(TemplatesDir)].entries)
         - Len(fs[PathResolve(TemplatesDir)].entries)
  ELSE 0

\* someone else removes a template while the manager is in use
RemoveTemplate(item) ==
  /\ Removals < MaxRemovals
  /\ IsDir(fs, TemplatesDir)
  /\ Exists(fs, PathJoin(TemplatesDir, item))
  /\ fs' = Remove(fs, PathJoin(TemplatesDir, item))
  /\ UNCHANGED <<world, faults, listing, outsideListing>>

\* the Template pushed for item
TemplateOf(store, item) ==
  [ name |-> item,
    path |-> PathJoin(TemplatesDir, item),
    type |-> IF IsDir(store, PathJoin(TemplatesDir, item)) THEN "directory" ELSE "file" ]

\* catch (error) { return templates; }
Caught(templates) == templates

\* the call of listTemplates, up to the first await
ListStart ==
  /\ listing.pc \in {"idle", "done"}
  /\ listing' = [IdleListing EXCEPT !.pc = "exists"]
  /\ UNCHANGED <<world, fs, faults, outsideListing>>

\* if (!(await FileUtils.pathExists(this.templatesDir))) return templates
ListExists ==
  /\ listing.pc = "exists"
  /\ LET logged == [listing EXCEPT !.ops = Append(@, Op("access", TemplatesDir, TRUE))]
     IN  listing' = IF Exists(fs, TemplatesDir)
                    THEN [logged EXCEPT !.pc = "readdir"]
                    ELSE [logged EXCEPT !.pc = "done", !.result = logged.templates]
  /\ UNCHANGED <<world, fs, faults, outsideListing>>

\* const items = await readdir(this.templatesDir)
ListReaddir ==
  /\ listing.pc = "readdir"
  /\ \E fault \in FaultChoices :
       IF fault \/ ~IsDir(fs, TemplatesDir)
       THEN /\ listing' = [listing EXCEPT !.pc = "done",
                                          !.ops = Append(@, Op("readdir", TemplatesDir, FALSE)),
                                          !.result = Caught(listing.templates)]
            /\ faults' = IF fault THEN faults + 1 ELSE faults
       ELSE LET items == fs[PathResolve(TemplatesDir)].entries
                logged == [listing EXCEPT !.items = items,
                                          !.ops = Append(@, Op("readdir", TemplatesDir, TRUE))]
            IN  /\ listing' = IF items = <<>>
                               THEN [logged EXCEPT !.pc = "done", !.result = logged.templates]
                               ELSE [logged EXCEPT !.pc = "stat", !.idx = 1]
                /\ UNCHANGED faults
  /\ UNCHANGED <<world, fs, outsideListing>>

\* one turn of the for loop: const stats = await stat(itemPath) and the push
ListStat ==
  /\ listing.pc = "stat"
  /\ \E fault \in FaultChoices :
       LET item == listing.items[listing.idx]
           itemPath == PathJoin(TemplatesDir, item)
       IN  IF fault \/ ~Exists(fs, itemPath)
           THEN /\ listing' = [listing EXCEPT !.pc = "done",
                                              !.ops = Append(@, Op("stat", itemPath, FALSE)),
                                              !.result = Caught(listing.templates)]
                /\ faults' = IF fault THEN faults + 1 ELSE faults
           ELSE LET pushed == [listing EXCEPT
                                 !.templates = Append(@, TemplateOf(fs, item)),
                                 !.ops = Append(@, Op("stat", itemPath, TRUE))]
                IN  /\ listing' = IF listing.idx = Len(listing.items)
                                   THEN [pushed EXCEPT !.pc = "done", !.result = pushed.templates]
                                   ELSE [pushed EXCEPT !.idx = listing.idx + 1]
                    /\ UNCHANGED faults
  /\ UNCHANGED <<world, fs, outsideListing>>

InitList == InitIn(ListWorlds) /\ sample = IdleSample

NextList ==
  \/ ListStart
  \/ ListExists
  \/ ListReaddir
  \/ ListStat
  \/ \E item \in TemplateItems : RemoveTemplate(item)

SpecList == InitList /\ [][NextList]_vars

(***************************************************************************)
(* replaceTemplateVariables applied to texts                               *)
(***************************************************************************)

\* the eight tokens, in the order replaceTemplateVariables replaces them
Tokens ==
  << "__templateNameToPascalCase__", "__templateNameToCamelCase__",
     "__templateNameToDashCase__", "__templateNameToSnakeCase__",
     "__templateNameToConstantCase__", "__templateNameToTitleCase__",
     "__templateNameToLowerCase__", "__templateNameToLowerCaseWithSpaces__" >>

\* the value of the k-th token
ValueOf(variables, k) ==
  CASE k = 1 -> variables.templateNameToPascalCase
    [] k = 2 -> variables.templateNameToCamelCase
    [] k = 3 -> variables.templateNameToDashCase
    [] k = 4 -> variables.templateNameToSnakeCase
    [] k = 5 -> variables.templateNameToConstantCase
    [] k = 6 -> variables.templateNameToTitleCase
    [] k = 7 -> variables.templateNameToLowerCase
    [] k = 8 -> variables.templateNameToLowerCaseWithSpaces

RECURSIVE ReplaceInOrder(_, _, _)
\* the chain of .replace calls with the tokens taken in the given order
ReplaceInOrder(content, variables, order) ==
  IF order = <<>> THEN content
  ELSE ReplaceInOrder(ReplaceAll(content, Tokens[Head(order)], ValueOf(variables, Head(order))),
                      variables, Tail(order))

\* the order of the source
FixedOrder == <<1, 2, 3, 4, 5, 6, 7, 8>>

\* other orders of the eight replacements
Orders ==
  { <<8, 7, 6, 5, 4, 3, 2, 1>>, <<2, 1, 3, 4, 5, 6, 7, 8>>,
    <<1, 2, 3, 4, 5, 6, 8, 7>>, <<3, 4, 5, 6, 7, 8, 1, 2>> }

\* template texts: plain, with every token, with tokens that share a "__"
\* and with a token inside the letters of another
Texts ==
  { "",
    "plain text",
    "export const __templateNameToPascalCase__ = '__templateNameToDashCase__';",
    "__templateNameToPascalCase__ __templateNameToCamelCase__ __templateNameToDashCase__ "
      \o "__templateNameToSnakeCase__ __templateNameToConstantCase__ __templateNameToTitleCase__ "
      \o "__templateNameToLowerCase__ __templateNameToLowerCaseWithSpaces__",
    "__templateNameToConstantCase___CONFIG __templateNameToCamelCase__Id",
    "__templateNameToPascalCase__templateNameToCamelCase__",
    "__templateNameToLowerCaseWithSpaces__templateNameToLowerCase__",
    "____templateNameToCamelCase____",
    "__templateNameTo__templateNameToCamelCase__PascalCase__" }

\* the names the variables are built from
Names == {"my component", "", "-", "x", "UserCard", "template name to pascal case"}

\* a text and a name to substitute
InitSubstitute ==
  /\ InitIn({WorldUtil})
  /\ sample \in [pc : {"input"}, text : Texts, name : Names,
                 once : {""}, twice : {""}, order : {<<>>}, permuted : {""}]

\* replaceTemplateVariables(text, generateTemplateVariables(name))
Substitute ==
  /\ sample.pc = "input"
  /\ sample' = [sample EXCEPT
       !.pc = "once",
       !.once = replaceTemplateVariables(sample.text, generateTemplateVariables(sample.name))]
  /\ UNCHANGED outsideSample

\* replaceTemplateVariables applied to its own output
SubstituteAgain ==
  /\ sample.pc = "once"
  /\ sample' = [sample EXCEPT
       !.pc = "twice",
       !.twice = replaceTemplateVariables(sample.once, generateTemplateVariables(sample.name))]
  /\ UNCHANGED outsideSample

\* the eight replacements made in another order on the same text
SubstitutePermuted(order) ==
  /\ sample.pc = "once"
  /\ sample' = [sample EXCEPT
       !.pc = "permuted",
       !.order = order,
       !.permuted = ReplaceInOrder(sample.text, generateTemplateVariables(sample.name), order)]
  /\ UNCHANGED outsideSample

NextSubstitute ==
  \/ Substitute
  \/ SubstituteAgain
  \/ \E order \in Orders : SubstitutePermuted(order)

SpecSubstitute == InitSubstitute /\ [][NextSubstitute]_vars

(***************************************************************************)
(* StringCase applied to names                                             *)
(***************************************************************************)

\* the longest name drawn from the alphabet
MaxNameLen == 4

\* a lowercase letter, an uppercase letter, a digit and two separators
Alphabet == {"a", "B", "1", "-", " "}

RECURSIVE StringsUpTo(_)
\* the strings over Alphabet of length n or less
StringsUpTo(n) ==
  IF n = 0 THEN {""}
  ELSE LET shorter == StringsUpTo(n - 1)
       IN  shorter \cup { s \o c : s \in shorter, c \in Alphabet }

\* the names a transformer is applied to
CaseNames == StringsUpTo(MaxNameLen) \cup Names \cup {"user profile", "userID", "a b c"}

\* the eight transformers applied to the eight values of variables, each to
\* the value it produced
Recased(variables) ==
  [ templateNameToPascalCase          |-> toPascalCase(variables.templateNameToPascalCase),
    templateNameToCamelCase           |-> toCamelCase(variables.templateNameToCamelCase),
    templateNameToDashCase            |-> toKebabCase(variables.templateNameToDashCase),
    templateNameToSnakeCase           |-> toSnakeCase(variables.templateNameToSnakeCase),
    templateNameToConstantCase        |-> toConstantCase(variables.templateNameToConstantCase),
    templateNameToTitleCase           |-> toTitleCase(variables.templateNameToTitleCase),
    templateNameToLowerCase           |-> toLowerCase(variables.templateNameToLowerCase),
    templateNameToLowerCaseWithSpaces |->
      toLowerCaseWithSpaces(variables.templateNameToLowerCaseWithSpaces) ]

\* a name to transform
InitCase ==
  /\ InitIn({WorldUtil})
  /\ sample \in [pc : {"input"}, name : CaseNames,
                 variables : {NoVariables}, again : {NoVariables}]

\* generateTemplateVariables(name)
Transform ==
  /\ sample.pc = "input"
  /\ sample' = [sample EXCEPT !.pc = "cased",
                              !.variables = generateTemplateVariables(sample.name)]
  /\ UNCHANGED outsideSample

\* every transformer applied to its own output
TransformAgain ==
  /\ sample.pc = "cased"
  /\ sample' = [sample EXCEPT !.pc = "recased", !.again = Recased(sample.variables)]
  /\ UNCHANGED outsideSample

NextCase ==
  \/ Transform
  \/ TransformAgain

SpecCase == InitCase /\ [][NextCase]_vars

(***************************************************************************)
(* TemplateValidator (template-validator.ts): the synchronous checks       *)
(***************************************************************************)

\* private static readonly VALID_PLACEHOLDERS
VALID_PLACEHOLDERS ==
  { "__templateNameToPascalCase__", "__templateNameToCamelCase__",
    "__templateNameToDashCase__", "__templateNameToSnakeCase__",
    "__templateNameToConstantCase__", "__templateNameToTitleCase__",
    "__templateNameToLowerCase__", "__templateNameToLowerCaseWithSpaces__" }

PlaceholderPrefix == "__templateName"

\* whether s holds tok at position i
HasAt(s, i, tok) == i >= 1 /\ i + Len(tok) - 1 <= Len(s) /\ SubSeq(s, i, i + Len(tok) - 1) = tok

\* the last position of the match of /__templateName[^...]*__/ that starts
\* at position i of s, 0 when there is none; stop is the set of characters
\* the class excludes. The class takes every character up to the first
\* excluded one, and giving characters back cannot help: the next character
\* has to be "_"
MatchEnd(s, i, stop) ==
  IF ~HasAt(s, i, PlaceholderPrefix) THEN 0
  ELSE LET after == i + Len(PlaceholderPrefix)
           stops == { j \in after..Len(s) : CharAt(s, j) \in stop }
       IN  IF stops # {} /\ HasAt(s, Min(stops), "__") THEN Min(stops) + 1 ELSE 0

RECURSIVE MatchesFrom(_, _, _)
\* s.match(regex) for the global regex, from position from on: the leftmost
\* match, then the matches after its end
MatchesFrom(s, from, stop) ==
  LET starts == { i \in from..Len(s) : MatchEnd(s, i, stop) > 0 }
  IN  IF starts = {} THEN <<>>
      ELSE LET first == Min(starts)
               last == MatchEnd(s, first, stop)
           IN  <<SubSeq(s, first, last)>> \o MatchesFrom(s, last + 1, stop)

\* fileName.match(/__templateName[^_]*__/g) || []
NameMatches(fileName) == MatchesFrom(fileName, 1, {"_"})

\* content.match(/__templateName[^_\s]*__/g) || []
ContentMatches(content) == MatchesFrom(content, 1, {"_"} \cup SpaceSet)

\* one message for every match that is not a valid placeholder
InvalidMessages(matches, head) ==
  LET invalid == SelectSeq(matches, LAMBDA m : m \notin VALID_PLACEHOLDERS)
  IN  [k \in 1..Len(invalid) |-> head \o invalid[k]]

\* validateFileName: the errors it pushes
validateFileName(fileName) ==
  InvalidMessages(NameMatches(fileName),
                  "Invalid placeholder in filename \"" \o fileName \o "\": ")
  \o (IF Includes(fileName, PlaceholderPrefix) /\ NameMatches(fileName) = <<>>
      THEN <<"Incomplete placeholder in filename: " \o fileName>>
      ELSE <<>>)

\* the line terminators, which "." does not match
LineTerminators == {"\n", "\r"}

\* whether /__templateName(?!.*__)/ matches at position i of content: the
\* prefix stands there and the rest of its line holds no "__"
IncompleteAt(content, i) ==
  /\ HasAt(content, i, PlaceholderPrefix)
  /\ LET after == i + Len(PlaceholderPrefix)
         breaks == { j \in after..Len(content) : CharAt(content, j) \in LineTerminators }
         lineEnd == IF breaks = {} THEN Len(content) ELSE Min(breaks) - 1
     IN  ~Includes(SubSeq(content, after, lineEnd), "__")

\* every incomplete placeholder reported, one error each
IncompleteMessagesEach(content, fileName) ==
  LET at == { i \in 1..Len(content) : IncompleteAt(content, i) }
      nth(k) == CHOOSE i \in at : Cardinality({ j \in at : j < i }) = k - 1
  IN  [k \in 1..Cardinality(at) |->
         "Incomplete placeholder in " \o fileName \o ": " \o PlaceholderPrefix]

\* if (incompleteMatches.length > 0) result.errors.push(...)
IncompleteMessages(content, fileName) ==
  IF \E i \in 1..Len(content) : IncompleteAt(content, i)
  THEN <<"Incomplete placeholder in " \o fileName \o ": " \o PlaceholderPrefix>>
  ELSE <<>>

\* content.replace(/\r\n/g, '')
WithoutWindowsEndings(content) == ReplaceAll(content, "\r\n", "")

\* content.length > 1000000
LargeFileSize == 1000000

\* validateFileContent: the errors and the warnings it pushes
validateFileContent(content, fileName) ==
  [ errors |->
      InvalidMessages(ContentMatches(content), "Invalid placeholder in " \o fileName \o ": ")
      \o IncompleteMessages(content, fileName),
    warnings |->
      (IF Includes(content, "\r\n") /\ Includes(WithoutWindowsEndings(content), "\n")
       THEN <<"Mixed line endings in " \o fileName>> ELSE <<>>)
      \o (IF Len(content) > LargeFileSize
          THEN <<"Large file: " \o fileName>> ELSE <<>>) ]

binaryExtensions ==
  { ".jpg", ".jpeg", ".png", ".gif", ".bmp", ".ico", ".svg",
    ".pdf", ".doc", ".docx", ".xls", ".xlsx",
    ".zip", ".tar", ".gz", ".rar",
    ".exe", ".dll", ".so", ".dylib",
    ".mp3", ".mp4", ".avi", ".mov",
    ".ttf", ".otf", ".woff", ".woff2" }

\* path.extname of a base name: from its last "." on, "" when it has none
\* or only a leading one
PathExtname(fileName) ==
  LET dots == { i \in 2..Len(fileName) : CharAt(fileName, i) = "." }
  IN  IF dots = {} THEN "" ELSE SubSeq(fileName, Max(dots), Len(fileName))

isBinaryFile(fileName) == ToLower(PathExtname(fileName)) \in binaryExtensions

(***************************************************************************)
(* TemplateValidator.validate and validateAll                              *)
(***************************************************************************)

\* a templates directory with the templates of the validator's tests
WorldValidator ==
  [ store |-> BuildFs(EmptyFs,
      << File(".template/component.tsx", "export const __templateNameToPascalCase__ = () => {};"),
         File(".template/invalid.tsx", "export const __templateNameInvalid__ = () => {};"),
         Dir(".template/empty-dir"),
         File(".template/incomplete.tsx", "export const __templateName = () => {};"),
         File(".template/mixed-endings.txt", "line1\r\nline2\nline3"),
         Dir(".template/component-dir"),
         File(".template/component-dir/__templateNameToPascalCase__.tsx",
              "export const Component = () => {};"),
         File(".template/component-dir/logo.png", "__templateNameBogus__"),
         Dir(".template/component-dir/sub"),
         File(".template/component-dir/sub/__templateNameBogus__.ts", "test content"),
         File(".template/component-dir/last.txt", "__templateNameToDashCase__") >>),
    templateNames |-> {"component.tsx"},
    targetNames |-> {"a"},
    targetDir |-> "out" ]

ValidatorWorlds == {WorldValidator, WorldCatalog, WorldEmpty, WorldBare}

\* the paths validate is called with: the templates, one that does not
\* exist, and the templates directory itself
ValidatePaths ==
  { PathJoin(TemplatesDir, item) : item \in TemplateItems \cup {"non-existent"} }
    \cup {TemplatesDir}

VFrame(dirPath) == [dirPath |-> dirPath, items |-> <<>>, idx |-> 0]

\* the flag left as the walk set it
Underived(result) == result

\* result.valid = result.errors.length === 0
Derived(result) == [result EXCEPT !.valid = (result.errors = <<>>)]

\* the end of validate: the flag is derived and the result returned, to the
\* caller or to the loop of validateAll, which stores it and goes on
Returned(v) ==
  LET final == Derived(v.result)
      ended == [v EXCEPT !.result = final, !.stack = <<>>,
                         !.returned = Append(@, final)]
  IN  IF ~v.all THEN [ended EXCEPT !.pc = "done"]
      ELSE LET stored == [ended EXCEPT
                            !.results = Append(@, [name |-> v.templates[v.idx],
                                                   result |-> final])]
           IN  IF v.idx = Len(v.templates) THEN [stored EXCEPT !.pc = "done"]
               ELSE [stored EXCEPT !.pc = "vstat",
                                   !.idx = v.idx + 1,
                                   !.templatePath = PathJoin(TemplatesDir, v.templates[v.idx + 1]),
                                   !.result = NewResult,
                                   !.ops = <<>>]

\* the failure dropped: nothing is recorded
CaughtSilently(v, name, path, message) ==
  Returned([v EXCEPT !.ops = Append(@, Op(name, path, FALSE))])

\* catch (error) of validate: the operation name on path failed
CaughtAccess(v, name, path, message) ==
  Returned([v EXCEPT !.ops = Append(@, Op(name, path, FALSE)),
                     !.result.valid = FALSE,
                     !.result.errors = Append(@, "Cannot access template: " \o message)])

\* after an entry is done: the next entry of the walk, or the end of validate
Proceed(v) ==
  LET adv == Advance(v.stack)
  IN  IF adv.pc = "finish" THEN Returned(v)
      ELSE [v EXCEPT !.stack = adv.stack, !.pc = "vstatItem"]

\* validateFile up to its await: the check of the name, and the return for
\* a binary file
EnterFile(v, filePath) ==
  LET fileName == PathBasename(filePath)
      named == [v EXCEPT !.filePath = filePath,
                         !.result.errors = @ \o validateFileName(fileName)]
  IN  IF isBinaryFile(fileName)
      THEN Proceed([named EXCEPT !.result.warnings =
             Append(@, "Binary file detected: " \o fileName \o " - content validation skipped")])
      ELSE [named EXCEPT !.pc = "vread"]

\* TemplateValidator.validate(templatePath), up to the first await
ValidateStart(templatePath) ==
  /\ validation.pc \in {"idle", "done"}
  /\ validation' = [IdleValidation EXCEPT !.pc = "vstat", !.templatePath = templatePath]
  /\ UNCHANGED <<faults, outsideValidator>>

\* TemplateValidator.validateAll(templatesDir), up to the first await
ValidateAllStart ==
  /\ validation.pc \in {"idle", "done"}
  /\ validation' = [IdleValidation EXCEPT !.pc = "allReaddir", !.all = TRUE]
  /\ UNCHANGED <<faults, outsideValidator>>

\* validateAll: const templates = await readdir(templatesDir), and its catch
AllReaddir ==
  /\ validation.pc = "allReaddir"
  /\ \E fault \in FaultChoices :
       IF fault \/ ~IsDir(fs, TemplatesDir)
       THEN /\ validation' = [validation EXCEPT
                 !.pc = "done",
                 !.results = <<[name |-> TemplatesDir,
                                result |-> [valid |-> FALSE,
                                            errors |-> <<"Cannot read templates directory: ENOENT">>,
                                            warnings |-> <<>>]]>>]
            /\ faults' = IF fault THEN faults + 1 ELSE faults
       ELSE LET templates == fs[PathResolve(TemplatesDir)].entries
            IN  /\ validation' =
                     IF templates = <<>> THEN [validation EXCEPT !.pc = "done"]
                     ELSE [validation EXCEPT !.pc = "vstat",
                                             !.templates = templates,
                                             !.idx = 1,
                                             !.templatePath = PathJoin(TemplatesDir, templates[1])]
                /\ UNCHANGED faults
  /\ UNCHANGED outsideValidator

\* validate: const stats = await stat(templatePath) and the branch
ValidateStat ==
  /\ validation.pc = "vstat"
  /\ \E fault \in FaultChoices :
       LET v == validation
           logged == [v EXCEPT !.ops = Append(@, Op("stat", v.templatePath, TRUE))]
       IN  IF fault \/ ~Exists(fs, v.templatePath)
           THEN /\ validation' = CaughtAccess(v, "stat", v.templatePath, "ENOENT")
                /\ faults' = IF fault THEN faults + 1 ELSE faults
           ELSE /\ validation' =
                     IF IsDir(fs, v.templatePath)
                     THEN [logged EXCEPT !.stack = <<VFrame(v.templatePath)>>, !.pc = "vreaddir"]
                     ELSE EnterFile(logged, v.templatePath)
                /\ UNCHANGED faults
  /\ UNCHANGED outsideValidator

\* validateDirectory: const items = await readdir(dirPath) and the warning
ValidateReaddir ==
  /\ validation.pc = "vreaddir"
  /\ \E fault \in FaultChoices :
       LET v == validation
           dirPath == Top(v).dirPath
       IN  IF fault \/ ~IsDir(fs, dirPath)
           THEN /\ validation' = CaughtAccess(v, "readdir", dirPath, "EACCES")
                /\ faults' = IF fault THEN faults + 1 ELSE faults
           ELSE LET items == fs[PathResolve(dirPath)].entries
                    listed == [v EXCEPT
                      !.stack[Len(v.stack)].items = items,
                      !.ops = Append(@, Op("readdir", dirPath, TRUE)),
                      !.result.warnings =
                         IF items = <<>> THEN Append(@, "Empty directory: " \o dirPath) ELSE @]
                IN  /\ validation' = Proceed(listed)
                    /\ UNCHANGED faults
  /\ UNCHANGED outsideValidator

\* validateDirectory, one item: await stat(itemPath) and the branch
ValidateStatItem ==
  /\ validation.pc = "vstatItem"
  /\ \E fault \in FaultChoices :
       LET v == validation
           top == Top(v)
           itemPath == PathJoin(top.dirPath, top.items[top.idx])
           logged == [v EXCEPT !.ops = Append(@, Op("stat", itemPath, TRUE))]
       IN  IF fault \/ ~Exists(fs, itemPath)
           THEN /\ validation' = CaughtAccess(v, "stat", itemPath, "ENOENT")
                /\ faults' = IF fault THEN faults + 1 ELSE faults
           ELSE /\ validation' =
                     IF IsDir(fs, itemPath)
                     THEN [logged EXCEPT !.stack = Append(@, VFrame(itemPath)), !.pc = "vreaddir"]
                     ELSE EnterFile(logged, itemPath)
                /\ UNCHANGED faults
  /\ UNCHANGED outsideValidator

\* validateFile: await readFile(filePath, 'utf-8'), the check of the content,
\* and the catch that turns a failed read into a warning
ValidateReadFile ==
  /\ validation.pc = "vread"
  /\ \E fault \in FaultChoices :
       LET v == validation
           fileName == PathBasename(v.filePath)
       IN  IF fault \/ ~IsFile(fs, v.filePath)
           THEN /\ validation' = Proceed([v EXCEPT
                     !.ops = Append(@, Op("readFile", v.filePath, FALSE)),
                     !.result.warnings =
                        Append(@, "Cannot read file " \o fileName \o ": EACCES")])
                /\ faults' = IF fault THEN faults + 1 ELSE faults
           ELSE LET checked == validateFileContent(fs[PathResolve(v.filePath)].content, fileName)
                IN  /\ validation' = Proceed([v EXCEPT
                          !.ops = Append(@, Op("readFile", v.filePath, TRUE)),
                          !.result.errors = @ \o checked.errors,
                          !.result.warnings = @ \o checked.warnings])
                    /\ UNCHANGED faults
  /\ UNCHANGED outsideValidator

InitValidate == InitIn(ValidatorWorlds) /\ sample = IdleSample

NextValidate ==
  \/ \E templatePath \in ValidatePaths : ValidateStart(templatePath)
  \/ ValidateAllStart
  \/ AllReaddir
  \/ ValidateStat
  \/ ValidateReaddir
  \/ ValidateStatItem
  \/ ValidateReadFile

SpecValidate == InitValidate /\ [][NextValidate]_vars

(***************************************************************************)
(* validateFile applied to file names and contents                         *)
(***************************************************************************)

\* contents of template files: with valid, unrecognized, unclosed and
\* adjoining placeholders, and with a marker of another prefix
SampleContents ==
  { "",
    "test content",
    "export const __templateNameToPascalCase__ = () => {};",
    "export const __templateNameInvalid__ = () => {};",
    "__templateNameBogus__",
    "export const __templateName = () => {};",
    "__templateName and __templateName again",
    "__templateName one\n__templateName two",
    "__templateNameToCamelCase__ then __templateName",
    "__templateNameToPascalCase__templateNameBogus__",
    "__templateNameA__ __templateNameB__",
    "__templateName x__",
    "__templateName\n__",
    "export const __componentName__ = 1;",
    "line1\r\nline2\nline3" }

\* names of template files
SampleFileNames ==
  { "component.tsx", "README", "logo.png",
    "__templateNameToPascalCase__.tsx", "__templateNameBogus__.ts",
    "__templateName.ts", "__templateName x__.txt",
    "__templateNameA__templateNameB__.ts", "__name__.ts" }

\* a file name and the content read from the file
InitPlaceholders ==
  /\ InitIn({WorldUtil})
  /\ sample \in [pc : {"input"}, fileName : SampleFileNames, content : SampleContents,
                 nameErrors : {<<>>}, contentErrors : {<<>>}, warnings : {<<>>}]

\* validateFile for a file that holds sample.content: the check of the
\* name, then the check of the content unless the extension is a binary one
ValidateFileSample ==
  /\ sample.pc = "input"
  /\ LET checked == validateFileContent(sample.content, sample.fileName)
     IN  sample' =
           IF isBinaryFile(sample.fileName)
           THEN [sample EXCEPT !.pc = "checked",
                               !.nameErrors = validateFileName(sample.fileName),
                               !.warnings = <<"Binary file detected: " \o sample.fileName
                                               \o " - content validation skipped">>]
           ELSE [sample EXCEPT !.pc = "checked",
                               !.nameErrors = validateFileName(sample.fileName),
                               !.contentErrors = checked.errors,
                               !.warnings = checked.warnings]
  /\ UNCHANGED outsideSample

NextPlaceholders == ValidateFileSample

SpecPlaceholders == InitPlaceholders /\ [][NextPlaceholders]_vars

(***************************************************************************)
(* FileUtils.copy (file-utils.ts)                                          *)
(***************************************************************************)

\* the packaged templates next to a project that already has a templates
\* directory with one of the files, and the two files of the copy test
WorldInstall ==
  [ store |-> BuildFs(EmptyFs,
      << Dir("."), Dir("templates"),
         File("templates/a.txt", "new a"),
         Dir("templates/sub"),
         File("templates/sub/b.txt", "new b"),
         Dir(".template"),
         File(".template/a.txt", "old a"),
         File("source-test.txt", "test content"),
         File("dest-test.txt", "old content") >>),
    templateNames |-> {"a.txt"},
    targetNames |-> {"a"},
    targetDir |-> "out" ]

CopySources == {"templates", "source-test.txt", "missing"}

CopyDestinations == {".template", "dest-test.txt", "fresh/dest.txt"}

\* the values of options.overwrite: left out, true, false
OverwriteOptions == {"undefined", "true", "false"}

\* !options.overwrite
NotOverwrite(overwrite) == overwrite \in {"undefined", "false"}

CopyFrame(source, destination) ==
  [source |-> source, destination |-> destination, items |-> <<>>, idx |-> 0]

\* the rejection of the promise copy returned: the operation name on path
\* failed
CopyRejected(c, name, path) ==
  [c EXCEPT !.pc = "failed", !.ops = Append(@, Op(name, path, FALSE))]

\* after an item is done: the next item of copyDirectory, or the end of copy
CopyProceed(c) ==
  LET adv == Advance(c.stack)
  IN  IF adv.pc = "finish" THEN [c EXCEPT !.stack = <<>>, !.pc = "done"]
      ELSE [c EXCEPT !.stack = adv.stack, !.pc = "cstatItem"]

\* copyFile up to its first await: pathExists is only called when
\* !options.overwrite holds
EnterCopyFile(c, source, destination) ==
  [c EXCEPT !.file = [source |-> source, destination |-> destination],
            !.pc = IF NotOverwrite(c.overwrite) THEN "cexists" ELSE "censureFileDir"]

\* FileUtils.copy(source, destination, options), up to the first await
CopyStart(source, destination, overwrite) ==
  /\ copying.pc = "idle"
  /\ copying' = [IdleCopy EXCEPT !.pc = "cstat", !.source = source,
                                 !.destination = destination, !.overwrite = overwrite]
  /\ UNCHANGED <<world, fs, generatedFiles, progress, calls, faults, listing, sample, validation, cli>>

\* copy: const stats = await fs.stat(source) and the branch
CopyStat ==
  /\ copying.pc = "cstat"
  /\ \E fault \in FaultChoices :
       LET c == copying
           logged == [c EXCEPT !.ops = Append(@, Op("stat", c.source, TRUE))]
       IN  IF fault \/ ~Exists(fs, c.source)
           THEN /\ copying' = CopyRejected(c, "stat", c.source)
                /\ faults' = IF fault THEN faults + 1 ELSE faults
           ELSE /\ copying' =
                     IF IsDir(fs, c.source)
                     THEN [logged EXCEPT !.stack = <<CopyFrame(c.source, c.destination)>>,
                                         !.pc = "censureDir"]
                     ELSE EnterCopyFile(logged, c.source, c.destination)
                /\ UNCHANGED faults
  /\ UNCHANGED <<world, fs, generatedFiles, progress, calls, listing, sample, validation, cli>>

\* copyDirectory: await this.ensureDir(destination)
CopyEnsureDir ==
  /\ copying.pc = "censureDir"
  /\ \E fault \in FaultChoices :
       LET c == copying
           dirPath == Top(c).destination
           made == Mkdir(fs, dirPath)
       IN  IF fault \/ ~made.ok
           THEN /\ copying' = CopyRejected(c, "mkdir", dirPath)
                /\ faults' = IF fault THEN faults + 1 ELSE faults
                /\ fs' = IF fault THEN fs ELSE made.store
           ELSE /\ copying' = [c EXCEPT !.pc = "creaddir",
                                        !.ops = Append(@, Op("mkdir", dirPath, TRUE))]
                /\ fs' = made.store
                /\ UNCHANGED faults
  /\ UNCHANGED <<world, generatedFiles, progress, calls, listing, sample, validation, cli>>

\* copyDirectory: const items = await fs.readdir(source)
CopyReaddir ==
  /\ copying.pc = "creaddir"
  /\ \E fault \in FaultChoices :
       LET c == copying
           source == Top(c).source
       IN  IF fault \/ ~IsDir(fs, source)
           THEN /\ copying' = CopyRejected(c, "readdir", source)
                /\ faults' = IF fault THEN faults + 1 ELSE faults
           ELSE /\ copying' = CopyProceed([c EXCEPT
                     !.stack[Len(c.stack)].items = fs[PathResolve(source)].entries,
                     !.ops = Append(@, Op("readdir", source, TRUE))])
                /\ UNCHANGED faults
  /\ UNCHANGED <<world, fs, generatedFiles, progress, calls, listing, sample, validation, cli>>

\* copyDirectory, one item: the two paths, await fs.stat(sourcePath) and the
\* branch
CopyStatItem ==
  /\ copying.pc = "cstatItem"
  /\ \E fault \in FaultChoices :
       LET c == copying
           top == Top(c)
           item == top.items[top.idx]
           sourcePath == PathJoin(top.source, item)
           destPath == PathJoin(top.destination, item)
           logged == [c EXCEPT !.ops = Append(@, Op("stat", sourcePath, TRUE))]
       IN  IF fault \/ ~Exists(fs, sourcePath)
           THEN /\ copying' = CopyRejected(c, "stat", sourcePath)
                /\ faults' = IF fault THEN faults + 1 ELSE faults
           ELSE /\ copying' =
                     IF IsDir(fs, sourcePath)
                     THEN [logged EXCEPT !.stack = Append(@, CopyFrame(sourcePath, destPath)),
                                         !.pc = "censureDir"]
                     ELSE EnterCopyFile(logged, sourcePath, destPath)
                /\ UNCHANGED faults
  /\ UNCHANGED <<world, fs, generatedFiles, progress, calls, listing, sample, validation, cli>>

\* copyFile: await this.pathExists(destination), and the return that leaves
\* the destination alone
CopyPathExists ==
  /\ copying.pc = "cexists"
  /\ LET c == copying
         destination == c.file.destination
         logged == [c EXCEPT !.ops = Append(@, Op("access", destination, TRUE))]
     IN  copying' = IF Exists(fs, destination) THEN CopyProceed(logged)
                    ELSE [logged EXCEPT !.pc = "censureFileDir"]
  /\ UNCHANGED <<world, fs, generatedFiles, progress, calls, faults, listing, sample, validation, cli>>

\* copyFile: await this.ensureDir(path.dirname(destination))
CopyEnsureFileDir ==
  /\ copying.pc = "censureFileDir"
  /\ \E fault \in FaultChoices :
       LET c == copying
           dirPath == PathDirname(PathResolve(c.file.destination))
           made == Mkdir(fs, dirPath)
       IN  IF fault \/ ~made.ok
           THEN /\ copying' = CopyRejected(c, "mkdir", dirPath)
                /\ faults' = IF fault THEN faults + 1 ELSE faults
                /\ fs' = IF fault THEN fs ELSE made.store
           ELSE /\ copying' = [c EXCEPT !.pc = "ccopyFile",
                                        !.ops = Append(@, Op("mkdir", dirPath, TRUE))]
                /\ fs' = made.store
                /\ UNCHANGED faults
  /\ UNCHANGED <<world, generatedFiles, progress, calls, listing, sample, validation, cli>>

\* copyFile: await fs.copyFile(source, destination)
CopyCopyFile ==
  /\ copying.pc = "ccopyFile"
  /\ \E fault \in FaultChoices :
       LET c == copying
           source == c.file.source
           destination == c.file.destination
           written == IF IsFile(fs, source)
                      THEN Write(fs, destination, fs[PathResolve(source)].content)
                      ELSE [ok |-> FALSE, store |-> fs]
       IN  IF fault \/ ~written.ok
           THEN /\ copying' = CopyRejected(c, "copyFile", destination)
                /\ faults' = IF fault THEN faults + 1 ELSE faults
                /\ UNCHANGED fs
           ELSE /\ copying' = CopyProceed([c EXCEPT
                     !.ops = Append(@, Op("copyFile", destination, TRUE))])
                /\ fs' = written.store
                /\ UNCHANGED faults
  /\ UNCHANGED <<world, generatedFiles, progress, calls, listing, sample, validation, cli>>

InitCopy == InitIn({WorldInstall}) /\ sample = IdleSample

NextCopy ==
  \/ \E source \in CopySources, destination \in CopyDestinations,
        overwrite \in OverwriteOptions : CopyStart(source, destination, overwrite)
  \/ CopyStat
  \/ CopyEnsureDir
  \/ CopyReaddir
  \/ CopyStatItem
  \/ CopyPathExists
  \/ CopyEnsureFileDir
  \/ CopyCopyFile

SpecCopy == InitCopy /\ [][NextCopy]_vars

(***************************************************************************)
(* Validators.isPathWithinDirectory applied to paths                       *)
(***************************************************************************)

\* the paths of the tests, the parent and the working directory, and
\* siblings whose names start with the name of an allowed directory
WithinPaths ==
  { "src/components/Button.tsx", "./templates/component", "../outside", "/etc/passwd",
    "src", "src/", "src2/x", "src-old", ".template/comp", ".template2/comp",
    ".templates", "..", ".", "src/../lib", "/w/src/a" }

WithinDirs == {"src", ".", ".template", "/w/src", "/", "templates/component", "/etc"}

\* a path and the directory it is to lie in
InitWithin ==
  /\ InitIn({WorldUtil})
  /\ sample \in [pc : {"input"}, filePath : WithinPaths, allowedDir : WithinDirs,
                 within : {FALSE}]

\* Validators.isPathWithinDirectory(filePath, allowedDir)
CheckWithin ==
  /\ sample.pc = "input"
  /\ sample' = [sample EXCEPT !.pc = "checked",
                              !.within = isPathWithinDirectory(sample.filePath, sample.allowedDir)]
  /\ UNCHANGED outsideSample

NextWithin == CheckWithin

SpecWithin == InitWithin /\ [][NextWithin]_vars

(***************************************************************************)
(* Two generateFromTemplate calls on one TemplateManager whose awaits      *)
(* interleave                                                              *)
(***************************************************************************)

\* the two calls that run together
ConcurrentIds == { c \in CallIds : c <= 2 }

\* the output directory of each of them
ConcurrentTargetDir(c) == IF c = 1 THEN "out/first" ELSE "out/second"

\* the synchronous head of generateFromTemplate, called while an earlier
\* call may still be waiting at one of its awaits
StartConcurrent(c, templateName, targetName, dryRun) ==
  /\ calls[c].pc = "idle"
  /\ \A d \in ConcurrentIds : d < c => calls[d].pc # "idle"
  /\ LET pathError == validatePath(templateName)
         templatePath == PathJoin(TemplatesDir, templateName)
         begun == [IdleCall EXCEPT !.templateName = templateName,
                                   !.targetName = targetName,
                                   !.targetDir = ConcurrentTargetDir(c),
                                   !.dryRun = dryRun,
                                   !.fsBefore = fs]
         entered ==
           IF pathError # ""
           THEN [begun EXCEPT !.pc = "failed", !.error = pathError,
                              !.result = generatedFiles]
           ELSE IF ~isPathWithinDirectory(templatePath, TemplatesDir)
           THEN [begun EXCEPT !.pc = "failed",
                              !.error = "Invalid template path: \"" \o templateName \o "\"",
                              !.result = generatedFiles]
           ELSE [begun EXCEPT !.pc = "checkExists",
                              !.templatePath = templatePath,
                              !.variables = generateTemplateVariables(targetName)]
     IN  calls' = [calls EXCEPT ![c] = entered]
  /\ UNCHANGED <<world, fs, generatedFiles, progress, faults, outsideManager>>

\* a directory template with one file
WorldSingle ==
  [ store |-> BuildFs(EmptyFs, << Dir("."), Dir(".template"), Dir(".template/single"),
                 File(".template/single/__templateNameToDashCase__.ts",
                      "export {};") >>),
    templateNames |-> {"single"},
    targetNames |-> {"my item"},
    targetDir |-> "out" ]

\* worlds with small templates: each call has few awaits
InitConcurrent == InitIn({WorldUtil, WorldSingle}) /\ sample = IdleSample

NextConcurrent ==
  \E c \in ConcurrentIds :
    \/ \E templateName \in world.templateNames, targetName \in world.targetNames,
          dryRun \in BOOLEAN : StartConcurrent(c, templateName, targetName, dryRun)
    \/ CheckExists(c)
    \/ CountFiles(c)
    \/ StatRoot(c)
    \/ EnsureDir(c)
    \/ Readdir(c)
    \/ StatItem(c)
    \/ ReadFile(c)
    \/ PathExistsTarget(c)
    \/ EnsureFileDir(c)
    \/ WriteFile(c)

SpecConcurrent == InitConcurrent /\ [][NextConcurrent]_vars

(***************************************************************************)
(* Commands.executeGeneration (the generate command of the CLI)            *)
(***************************************************************************)

\* constructor default of ConfigManager
ConfigFile == "template.config.js"

\* stands for the text generateConfigContent gives for the default
\* configuration
DefaultConfigContent == "module.exports = { outputDirectories: [...] };"

\* a project without a configuration file: loadConfig gives the default
\* configuration, whose only output directory is "."
WorldCliFresh ==
  [ store |-> BuildFs(EmptyFs, << Dir("."), Dir(".template"),
                 File(".template/util.ts", "export const __templateNameToCamelCase__ = 1;") >>),
    templateNames |-> {"util.ts"},
    targetNames |-> {"date helper"},
    targetDir |-> "." ]

\* a project whose configuration file lists src/utils, which is not there
\* yet
WorldCliConfigured ==
  [ store |-> BuildFs(EmptyFs, << Dir("."), Dir(".template"),
                 File(".template/util.ts", "export const __templateNameToCamelCase__ = 1;"),
                 File(ConfigFile, "module.exports = { outputDirectories: [{ path: 'src/utils' }] };"),
                 Dir("src") >>),
    templateNames |-> {"util.ts"},
    targetNames |-> {"date helper"},
    targetDir |-> "src/utils" ]

\* a project with a configuration file and the output directory it lists
WorldCliReady ==
  [ store |-> BuildFs(EmptyFs, << Dir("."), Dir(".template"), Dir(".template/single"),
                 File(".template/single/__templateNameToDashCase__.ts", "export {};"),
                 File(ConfigFile, "module.exports = { outputDirectories: [{ path: 'out' }] };"),
                 Dir("out") >>),
    templateNames |-> {"single"},
    targetNames |-> {"my item"},
    targetDir |-> "out" ]

CliWorlds == {WorldCliFresh, WorldCliConfigured, WorldCliReady}

\* CLIUtils.handleError: the message is printed and the process exits
CliFailed(c) == [c EXCEPT !.pc = "error"]

\* executeGeneration is called
CliStart ==
  /\ cli.pc = "idle"
  /\ cli' = [cli EXCEPT !.pc = "loadConfig"]
  /\ UNCHANGED <<world, fs, generatedFiles, progress, calls, faults, listing, sample,
                 validation, copying>>

\* const config = await configManager.loadConfig(): a configuration file
\* that exists is read; else createDefaultConfig writes one, and a failure
\* to write it is only reported
CliLoadConfig ==
  /\ cli.pc = "loadConfig"
  /\ \E fault \in FaultChoices :
       IF Exists(fs, ConfigFile)
       THEN /\ ~fault
            /\ UNCHANGED <<fs, faults>>
       ELSE LET made == Mkdir(fs, PathDirname(PathResolve(ConfigFile)))
                written == Write(made.store, ConfigFile, DefaultConfigContent)
            IN  IF fault \/ ~made.ok \/ ~written.ok
                THEN /\ faults' = IF fault THEN faults + 1 ELSE faults
                     /\ UNCHANGED fs
                ELSE /\ fs' = written.store
                     /\ UNCHANGED faults
  /\ cli' = [cli EXCEPT !.pc = "prompt"]
  /\ UNCHANGED <<world, generatedFiles, progress, calls, listing, sample, validation, copying>>

\* the four prompts: the template, the name (promptForName returns the
\* validated, trimmed name), the output directory and the dry-run question
CliPrompt(templateName, componentName, dryRun) ==
  /\ cli.pc = "prompt"
  /\ validateTemplateName(componentName) = ""
  /\ cli' = [cli EXCEPT !.pc = "ensureDir",
                        !.templateName = templateName,
                        !.componentName = Trim(componentName),
                        !.selectedDirectory = world.targetDir,
                        !.dryRun = dryRun]
  /\ UNCHANGED <<world, fs, generatedFiles, progress, calls, faults, listing, sample,
                 validation, copying>>

\* await FileUtils.ensureDir(selectedDirectory), before the first
\* generateFromTemplate and whatever dryRun is
CliEnsureDir ==
  /\ cli.pc = "ensureDir"
  /\ \E fault \in FaultChoices :
       LET made == Mkdir(fs, cli.selectedDirectory)
       IN  IF fault \/ ~made.ok
           THEN /\ cli' = CliFailed(cli)
                /\ faults' = IF fault THEN faults + 1 ELSE faults
                /\ fs' = IF fault THEN fs ELSE made.store
           ELSE /\ cli' = [cli EXCEPT !.pc = "first"]
                /\ fs' = made.store
                /\ UNCHANGED faults
  /\ UNCHANGED <<world, generatedFiles, progress, calls, listing, sample, validation, copying>>

\* generateFromTemplate(templateName, componentName, selectedDirectory,
\* { dryRun }) is called
CliGenerate ==
  /\ cli.pc = "first"
  /\ Start(1, cli.templateName, cli.componentName, cli.dryRun)

\* the first call has ended: its rejection goes to handleError; after a dry
\* run the user is asked whether to proceed
CliAfterFirst(proceed) ==
  /\ cli.pc = "first"
  /\ calls[1].pc \in {"done", "failed"}
  /\ cli' = IF calls[1].pc = "failed" THEN CliFailed(cli)
            ELSE IF ~cli.dryRun THEN [cli EXCEPT !.pc = "done"]
            ELSE IF proceed THEN [cli EXCEPT !.pc = "second", !.proceed = TRUE]
            ELSE [cli EXCEPT !.pc = "cancelled"]
  /\ UNCHANGED <<world, fs, generatedFiles, progress, calls, faults, listing, sample,
                 validation, copying>>

\* generateFromTemplate(..., { dryRun: false }) after the user confirmed
CliGenerateAgain ==
  /\ cli.pc = "second"
  /\ Start(2, cli.templateName, cli.componentName, FALSE)

\* the second call has ended
CliAfterSecond ==
  /\ cli.pc = "second"
  /\ calls[2].pc \in {"done", "failed"}
  /\ cli' = IF calls[2].pc = "failed" THEN CliFailed(cli) ELSE [cli EXCEPT !.pc = "done"]
  /\ UNCHANGED <<world, fs, generatedFiles, progress, calls, faults, listing, sample,
                 validation, copying>>

InitCli == InitIn(CliWorlds) /\ sample = IdleSample

NextCli ==
  \/ CliStart
  \/ CliLoadConfig
  \/ \E templateName \in world.templateNames, componentName \in world.targetNames,
        dryRun \in BOOLEAN : CliPrompt(templateName, componentName, dryRun)
  \/ CliEnsureDir
  \/ CliGenerate
  \/ \E proceed \in BOOLEAN : CliAfterFirst(proceed)
  \/ CliGenerateAgain
  \/ CliAfterSecond
  \/ \E c \in {1, 2} :
       \/ CheckExists(c)
       \/ CountFiles(c)
       \/ StatRoot(c)
       \/ EnsureDir(c)
       \/ Readdir(c)
       \/ StatItem(c)
       \/ ReadFile(c)
       \/ PathExistsTarget(c)
       \/ EnsureFileDir(c)
       \/ WriteFile(c)

SpecCli == InitCli /\ [][NextCli]_vars

(***************************************************************************)
(* Properties                                                              *)
(***************************************************************************)

Started(c) == calls[c].pc \notin {"idle", "forgotten"}

\* no invocation began after c
Latest(c) == \A d \in CallIds : d > c => calls[d].pc = "idle"

\* c and the invocation after it got the same arguments but for dryRun
SameInputs(c, d) ==
  /\ calls[c].templateName = calls[d].templateName
  /\ calls[c].targetName = calls[d].targetName
  /\ calls[c].targetDir = calls[d].targetDir

\* the resolved path p lies below the directory dir
Below(p, dir) == StartsWith(PathResolve(p), PathResolve(dir) \o "/")

Range(seq) == { seq[i] : i \in 1..Len(seq) }

\* the entries invocation c has recorded so far
Recorded(c) ==
  IF calls[c].pc \in {"done", "failed"} THEN calls[c].result
  ELSE IF calls[c].pc = "checkExists" THEN <<>>
  ELSE generatedFiles

\* C1: a generateFromTemplate call with dryRun = true leaves the file store
\* as it found it, at every step of the call and after it: it creates no
\* directory and creates or modifies no file
C1_DryRunLeavesStore ==
  \A c \in CallIds :
    (Started(c) /\ Latest(c) /\ calls[c].dryRun) => fs = calls[c].fsBefore

\* a dry run of a directory template has ended and listed several files
C1_Witness ==
  \E c \in CallIds :
    /\ calls[c].pc = "done" /\ calls[c].dryRun /\ Latest(c)
    /\ Len(calls[c].result) >= 2
    /\ IsDir(fs, calls[c].templatePath)
    /\ \E d \in CallIds : d < c /\ calls[d].writes # <<>>

\* C2: the result sequence of a dry run equals the result sequence of the
\* run that is not dry, with the same inputs from the same file store
C2_DryRunMirrorsRun ==
  \A c \in CallIds :
    ( /\ c + 1 \in CallIds
      /\ calls[c].pc = "done" /\ calls[c + 1].pc = "done"
      /\ calls[c].dryRun /\ ~calls[c + 1].dryRun
      /\ SameInputs(c, c + 1)
      /\ calls[c].fsBefore = calls[c + 1].fsBefore )
    => calls[c].result = calls[c + 1].result

\* the target directory holds nothing in store
EmptyTarget(store, dir) ==
  ~Exists(store, dir) \/ (IsDir(store, dir) /\ store[PathResolve(dir)].entries = <<>>)

\* C3: two runs that are not dry, with the same inputs, into a target
\* directory that is empty at first: the first marks every entry create,
\* the second marks every entry overwrite, and the generated files hold the
\* same contents after the second run as after the first
C3_TwiceCreateThenOverwrite ==
  \A c \in CallIds :
    ( /\ c + 1 \in CallIds /\ Latest(c + 1)
      /\ calls[c].pc = "done" /\ calls[c + 1].pc = "done"
      /\ ~calls[c].dryRun /\ ~calls[c + 1].dryRun
      /\ SameInputs(c, c + 1)
      /\ EmptyTarget(calls[c].fsBefore, calls[c].targetDir) )
    => /\ \A r \in Range(calls[c].result) : r.action = "create"
       /\ \A r \in Range(calls[c + 1].result) : r.action = "overwrite"
       /\ \A r \in Range(calls[c + 1].result) :
            /\ IsFile(fs, r.path) /\ IsFile(calls[c + 1].fsBefore, r.path)
            /\ fs[PathResolve(r.path)].content
                 = calls[c + 1].fsBefore[PathResolve(r.path)].content

\* the container directory of a directory template
Container(call) == PathJoin(call.targetDir, toPascalCase(call.targetName))

\* C4: with a directory template every file of a generation that is not a
\* dry run, recorded or written, lies below targetDir/<PascalCase(targetName)>
C4_DirectoryTemplateContainer ==
  \A c \in CallIds :
    ( /\ Started(c) /\ ~calls[c].dryRun
      /\ validatePath(calls[c].templateName) = ""
      /\ IsDir(calls[c].fsBefore, PathJoin(TemplatesDir, calls[c].templateName)) )
    => /\ \A r \in Range(Recorded(c)) : Below(r.path, Container(calls[c]))
       /\ \A w \in Range(calls[c].writes) : Below(w.path, Container(calls[c]))

\* the one output path of a single-file template
FileTarget(call) ==
  PathJoin(call.targetDir,
           replaceTemplateVariables(PathBasename(call.templateName),
                                    generateTemplateVariables(call.targetName)))

\* the directories of store
DirsOf(store) == { p \in DOMAIN store : store[p].kind = "dir" }

\* the resolved path dir and the directories above it
RECURSIVE Ancestors(_)
Ancestors(dir) == IF dir = "/" THEN {"/"} ELSE {dir} \cup Ancestors(PathDirname(dir))

C6_ReadmeUtility ==
  \A c \in CallIds :
    ( /\ calls[c].pc = "done" /\ ~calls[c].dryRun /\ Latest(c)
      /\ calls[c].templateName = "util.ts"
      /\ calls[c].targetName = "date helper"
      /\ calls[c].targetDir = "src/utils" )
    => IsFile(fs, "src/utils/DateHelper.ts")

\* the template names C7 is about
Traversal(templateName) ==
  \/ Includes(PathNormalize(templateName), "..")
  \/ StartsWith(PathNormalize(templateName), "/")
  \/ StartsWith(PathNormalize(templateName), "~")
  \/ Includes(templateName, NUL)

\* C7: a call with such a template name fails with the input-validation
\* error before any file-store operation, the existence check included,
\* and the file store is as it was
C7_TraversalRejectedFirst ==
  \A c \in CallIds :
    (Started(c) /\ Traversal(calls[c].templateName))
    => /\ calls[c].pc = "failed"
       /\ StartsWith(calls[c].error, "Invalid path: ")
       /\ calls[c].ops = <<>>
       /\ Latest(c) => fs = calls[c].fsBefore

\* a call with a traversing template name was rejected
C7_Witness ==
  \E c \in CallIds :
    /\ calls[c].pc = "failed" /\ calls[c].ops = <<>>
    /\ Includes(calls[c].templateName, "..")
    /\ Exists(fs, PathJoin(TemplatesDir, calls[c].templateName))

\* C8: when templatesDir/templateName does not exist the call fails with an
\* error that holds the template name and "not found", and nothing is
\* created or written
C8_TemplateNotFound ==
  \A c \in CallIds :
    ( /\ Started(c) /\ calls[c].pc # "checkExists"
      /\ ~Traversal(calls[c].templateName)
      /\ ~Exists(calls[c].fsBefore, PathJoin(TemplatesDir, calls[c].templateName)) )
    => /\ calls[c].pc = "failed"
       /\ Includes(calls[c].error, calls[c].templateName)
       /\ Includes(calls[c].error, "not found")
       /\ calls[c].writes = <<>>
       /\ \A i \in 1..Len(calls[c].ops) : calls[c].ops[i].op = "access"
       /\ Latest(c) => fs = calls[c].fsBefore

\* a call for a template that is not there has failed
C8_Witness ==
  \E c \in CallIds :
    /\ calls[c].pc = "failed" /\ calls[c].templateName = "missing.ts"
    /\ Len(calls[c].ops) = 1

\* C9: a call with an invalid target name is rejected before any I/O
C9_InvalidNameRejected ==
  \A c \in CallIds :
    (Started(c) /\ validateTemplateName(calls[c].targetName) # "")
    => calls[c].pc = "failed" /\ calls[c].ops = <<>>

\* the last content the call wrote to path
LastWritten(call, path) ==
  LET at == { i \in 1..Len(call.writes) : call.writes[i].path = path }
  IN  call.writes[Max(at)].content

\* C10: a read, mkdir or write that fails ends the call with that failure:
\* the failed operation is tried once and is the last operation of the
\* call, and every file written before it is in the store with the content
\* written
C10_FailureAbortsWalk ==
  \A c \in CallIds :
    Started(c) =>
      /\ \A i \in 1..Len(calls[c].ops) :
           ~calls[c].ops[i].ok => (i = Len(calls[c].ops) /\ calls[c].pc = "failed")
      /\ (calls[c].pc = "failed" /\ Latest(c)) =>
           \A w \in Range(calls[c].writes) :
             /\ IsFile(fs, w.path)
             /\ fs[PathResolve(w.path)].content = LastWritten(calls[c], w.path)

\* a walk has failed at a later entry after it wrote a file
C10_Witness ==
  \E c \in CallIds :
    /\ calls[c].pc = "failed" /\ Latest(c)
    /\ calls[c].writes # <<>>
    /\ ~calls[c].ops[Len(calls[c].ops)].ok
    /\ calls[c].ops[Len(calls[c].ops)].op \in {"readFile", "mkdir", "writeFile"}
    /\ IsFile(fs, calls[c].writes[1].path)

(***************************************************************************)
(* getGeneratedFiles                                                       *)
(***************************************************************************)

\* return [...this.generatedFiles]
getGeneratedFiles == generatedFiles

\* the target paths invocation call looked up before recording them: every
\* access after the existence check of the template
PushedPaths(call) ==
  LET accesses == SelectSeq(call.ops, LAMBDA o : o.op = "access")
  IN  IF accesses = <<>> THEN <<>>
      ELSE [i \in 1..(Len(accesses) - 1) |-> accesses[i + 1].path]

\* C11: once the most recent invocation has ended, getGeneratedFiles()
\* returns the entries that invocation recorded and no others: the empty
\* list when it recorded none
C11_OnlyLatestInvocation ==
  \A c \in CallIds :
    (calls[c].pc \in {"done", "failed"} /\ Latest(c))
    => [i \in 1..Len(getGeneratedFiles) |-> getGeneratedFiles[i].path]
         = PushedPaths(calls[c])

\* some file-store operation of the listing failed
ListingFailed == \E i \in 1..Len(listing.ops) : ~listing.ops[i].ok

\* C12: the list listTemplates returns is empty when the templates root is
\* absent or a readdir or stat failed, and otherwise holds one Template for
\* every immediate child of the root, in listing order, of type directory
\* exactly for the directories
C12_ListAllOrNothing ==
  listing.pc = "done" =>
    IF ListingFailed \/ Len(listing.ops) = 1 THEN listing.result = <<>>
    ELSE /\ Len(listing.result) = Len(listing.items)
         /\ \A i \in 1..Len(listing.items) :
              listing.result[i] = TemplateOf(world.store, listing.items[i])
         /\ \A i \in 1..Len(listing.items) :
              \E j \in 1..Len(world.store[PathResolve(TemplatesDir)].entries) :
                world.store[PathResolve(TemplatesDir)].entries[j] = listing.items[i]

\* C13: the output of replaceTemplateVariables holds none of the eight
\* tokens and applying the function to it again gives it back unchanged
C13_SubstituteIdempotent ==
  (sample.pc = "twice") =>
    /\ sample.twice = sample.once
    /\ \A k \in 1..Len(Tokens) : ~Includes(sample.once, Tokens[k])

\* C14: the eight replacements made in any other order give the output of
\* the fixed order
C14_OrderIndependent ==
  (sample.pc = "permuted") => sample.permuted = sample.once

\* the positions of name where a word starts: an alphanumeric character at
\* the start, after a separator, or an uppercase letter after a lowercase one
WordStarts(name) ==
  { i \in 1..Len(name) :
      /\ IsAlnum(CharAt(name, i))
      /\ \/ i = 1
         \/ ~IsAlnum(CharAt(name, i - 1))
         \/ (CharAt(name, i - 1) \in LowerSet /\ CharAt(name, i) \in UpperSet) }

\* the word of name that starts at position i
WordAt(name, i) ==
  LET stops == { j \in (i + 1)..(Len(name) + 1) :
                   \/ j = Len(name) + 1
                   \/ ~IsAlnum(CharAt(name, j))
                   \/ j \in WordStarts(name) }
  IN  SubSeq(name, i, Min(stops) - 1)

\* the words of name, in order
WordsOf(name) ==
  LET starts == WordStarts(name)
      nth(k) == CHOOSE i \in starts : Cardinality({ j \in starts : j < i }) = k - 1
  IN  [k \in 1..Cardinality(starts) |-> WordAt(name, nth(k))]

RECURSIVE Joined(_, _)
\* the words joined by sep
Joined(words, sep) ==
  IF words = <<>> THEN ""
  ELSE IF Len(words) = 1 THEN words[1]
  ELSE words[1] \o sep \o Joined(Tail(words), sep)

\* the eight values the words of name give, variant by variant
ReferenceVariables(name) ==
  LET words == WordsOf(name)
      capitalised == [k \in 1..Len(words) |->
                        ToUpper(SubSeq(words[k], 1, 1)) \o ToLower(SubSeq(words[k], 2, Len(words[k])))]
      lower == [k \in 1..Len(words) |-> ToLower(words[k])]
      upper == [k \in 1..Len(words) |-> ToUpper(words[k])]
      pascal == Joined(capitalised, "")
  IN  [ templateNameToPascalCase          |-> pascal,
        templateNameToCamelCase           |->
          IF pascal = "" THEN ""
          ELSE ToLower(SubSeq(pascal, 1, 1)) \o SubSeq(pascal, 2, Len(pascal)),
        templateNameToDashCase            |-> Joined(lower, "-"),
        templateNameToSnakeCase           |-> Joined(lower, "_"),
        templateNameToConstantCase        |-> Joined(upper, "_"),
        templateNameToTitleCase           |-> Joined(capitalised, " "),
        templateNameToLowerCase           |-> Joined(lower, ""),
        templateNameToLowerCaseWithSpaces |-> Joined(lower, " ") ]

\* C15: generateTemplateVariables(name) has the eight keys and every value
\* is the one the words of the name give; a name without a word gives eight
\* empty strings
C15_VariablesMatchReference ==
  (sample.pc = "cased") =>
    /\ DOMAIN sample.variables = DOMAIN NoVariables
    /\ sample.variables = ReferenceVariables(sample.name)
    /\ WordStarts(sample.name) = {} =>
         \A key \in DOMAIN sample.variables : sample.variables[key] = ""

\* a name with a separator, a digit followed by a capital and a lowercase
\* letter followed by a capital has been transformed
C15_Witness ==
  /\ sample.pc = "cased"
  /\ sample.name = "1BaB"
  /\ sample.variables.templateNameToDashCase = "1ba-b"

\* C16: each of the eight transformers applied to its own output gives that
\* output again
C16_TransformersIdempotent ==
  (sample.pc = "recased") => sample.again = sample.variables

\* the number of messages of seq that hold needle
CountWith(seq, needle) == Cardinality({ i \in 1..Len(seq) : Includes(seq[i], needle) })

\* the results validate has returned and the values validateAll has stored
AllResults ==
  Range(validation.returned) \cup { validation.results[i].result : i \in 1..Len(validation.results) }

\* C17: every result returned by validate and every value of the map of
\* validateAll has valid = TRUE exactly when it has no error, whatever
\* warnings it has; an empty directory that could be listed gives a valid
\* result with exactly one warning, "Empty directory"
C17_ValidIffNoErrors ==
  /\ \A r \in AllResults : r.valid <=> (r.errors = <<>>)
  /\ ( /\ validation.pc = "done" /\ ~validation.all
       /\ IsDir(fs, validation.templatePath)
       /\ fs[PathResolve(validation.templatePath)].entries = <<>>
       /\ \A i \in 1..Len(validation.ops) : validation.ops[i].ok )
     => /\ validation.result.valid
        /\ Len(validation.result.warnings) = 1
        /\ CountWith(validation.result.warnings, "Empty directory") = 1

\* validateAll has gone through templates with warnings only, among them an
\* empty directory, and templates with errors
C17_Witness ==
  /\ validation.pc = "done" /\ validation.all
  /\ \E i \in 1..Len(validation.results) :
       /\ validation.results[i].name = "empty-dir"
       /\ validation.results[i].result.valid
       /\ CountWith(validation.results[i].result.warnings, "Empty directory") = 1
  /\ \E i \in 1..Len(validation.results) :
       /\ validation.results[i].result.valid
       /\ CountWith(validation.results[i].result.warnings, "Mixed line endings") = 1
  /\ \E i \in 1..Len(validation.results) :
       /\ ~validation.results[i].result.valid
       /\ CountWith(validation.results[i].result.warnings, "Binary file") = 1

\* C18: a stat or a readdir that fails during validate is the last
\* operation of the call, which returns a result that is not valid and holds
\* exactly one "Cannot access template" error, the last of its errors
C18_CannotAccessStopsWalk ==
  /\ \A i \in 1..Len(validation.ops) :
       (~validation.ops[i].ok /\ validation.ops[i].op \in {"stat", "readdir"})
       => /\ i = Len(validation.ops)
          /\ validation.pc = "done"
          /\ ~validation.result.valid
          /\ CountWith(validation.result.errors, "Cannot access template") = 1
  /\ \A r \in AllResults :
       /\ CountWith(r.errors, "Cannot access template") <= 1
       /\ CountWith(r.errors, "Cannot access template") = 1 =>
            /\ ~r.valid
            /\ Includes(r.errors[Len(r.errors)], "Cannot access template")

\* the walk of a directory template stopped at a nested directory that
\* could not be listed, after the entries before it were inspected
C18_Witness ==
  /\ validation.pc = "done" /\ ~validation.all
  /\ Len(validation.ops) >= 5
  /\ LET last == validation.ops[Len(validation.ops)]
     IN  ~last.ok /\ last.op = "readdir" /\ last.path = ".template/component-dir/sub"
  /\ Len(validation.result.errors) = 1
  /\ validation.result.warnings # <<>>

\* the positions of s where a substring __templateName<chars>__ starts that
\* is not one of the eight tokens, chars holding no "_" and no whitespace
UnrecognizedAt(s) ==
  { i \in 1..Len(s) :
      \E e \in (i + Len(PlaceholderPrefix) + 1)..Len(s) :
        /\ SubSeq(s, i, i + Len(PlaceholderPrefix) - 1) = PlaceholderPrefix
        /\ SubSeq(s, e - 1, e) = "__"
        /\ \A j \in (i + Len(PlaceholderPrefix))..(e - 2) :
             CharAt(s, j) # "_" /\ ~IsSpace(CharAt(s, j))
        /\ SubSeq(s, i, e) \notin VALID_PLACEHOLDERS }

\* C19: for a file that is not binary the number of "Invalid placeholder"
\* errors is the number of unrecognized placeholders in its name and in its
\* content
C19_InvalidPlaceholderCount ==
  (sample.pc = "checked" /\ ~isBinaryFile(sample.fileName)) =>
    CountWith(sample.nameErrors \o sample.contentErrors, "Invalid placeholder")
      = Cardinality(UnrecognizedAt(sample.fileName)) + Cardinality(UnrecognizedAt(sample.content))

\* the content holds a __templateName with no "__" anywhere after it
Unclosed(content) ==
  \E i \in 1..Len(content) :
    /\ HasAt(content, i, PlaceholderPrefix)
    /\ ~Includes(SubSeq(content, i + Len(PlaceholderPrefix), Len(content)), "__")

\* every __templateName of the content starts one of the eight tokens
AllWellFormed(content) ==
  \A i \in 1..Len(content) :
    HasAt(content, i, PlaceholderPrefix) =>
      \E tok \in VALID_PLACEHOLDERS : HasAt(content, i, tok)

SampleResult ==
  Derived([valid |-> TRUE,
           errors |-> sample.nameErrors \o sample.contentErrors,
           warnings |-> sample.warnings])

\* s holds a token __<identifier>__, the identifier made of letters and
\* digits, that is not one of the eight recognized ones
HoldsUnknownToken(s) ==
  \E i \in 1..Len(s) : \E e \in (i + 4)..Len(s) :
    /\ SubSeq(s, i, i + 1) = "__"
    /\ SubSeq(s, e - 1, e) = "__"
    /\ \A j \in (i + 2)..(e - 2) : IsAlnum(CharAt(s, j))
    /\ SubSeq(s, i, e) \notin VALID_PLACEHOLDERS

\* C21: a file whose name holds a token __<identifier>__ outside the eight
\* recognized ones, or whose content does when the content is text, gets a
\* result that is not valid and holds an error
C21_ClosedTokenSet ==
  ( /\ sample.pc = "checked"
    /\ \/ HoldsUnknownToken(sample.fileName)
       \/ ~isBinaryFile(sample.fileName) /\ HoldsUnknownToken(sample.content) )
  => /\ ~SampleResult.valid
     /\ SampleResult.errors # <<>>

\* C22: when validate has returned after a readFile of a file of the
\* template failed, the result is not valid and one of its errors names the
\* file
C22_UnreadableFileIsError ==
  validation.pc = "done" =>
    \A i \in 1..Len(validation.ops) :
      (validation.ops[i].op = "readFile" /\ ~validation.ops[i].ok)
      => /\ ~validation.result.valid
         /\ CountWith(validation.result.errors, PathBasename(validation.ops[i].path)) >= 1

\* the files of the source as they were before the copy, each with the path
\* of its copy below the destination
CopiedFiles ==
  LET source == PathResolve(copying.source)
      destination == PathResolve(copying.destination)
  IN  { [from |-> key, to |-> destination \o SubSeq(key, Len(source) + 1, Len(key))] :
          key \in { k \in DOMAIN world.store :
                      /\ world.store[k].kind = "file"
                      /\ k = source \/ StartsWith(k, source \o "/") } }

\* C23: after a copy that completed with overwrite left out or true, every
\* file of the source is at its destination path with the content of the
\* source, whether or not a file was there before
C23_DefaultOverwrites ==
  (copying.pc = "done" /\ copying.overwrite # "false") =>
    \A f \in CopiedFiles :
      /\ f.to \in DOMAIN fs
      /\ fs[f.to].content = world.store[f.from].content

RECURSIVE PreOrder(_, _, _, _)
\* the target paths of the files below sourcePath in depth-first pre-order:
\* the entries of a directory in listing order, the files of a subdirectory
\* before the next entry
PreOrder(store, sourcePath, targetDir, variables) ==
  LET items == store[PathResolve(sourcePath)].entries
      part(i) ==
        LET source == PathJoin(sourcePath, items[i])
            target == PathJoin(targetDir, replaceTemplateVariables(items[i], variables))
        IN  IF IsDir(store, source) THEN PreOrder(store, source, target, variables)
            ELSE <<target>>
      Upto[i \in 0..Len(items)] == IF i = 0 THEN <<>> ELSE Upto[i - 1] \o part(i)
  IN  Upto[Len(items)]

\* the paths a generation from the template of call is to record, for the
\* file store the call found
ExpectedPaths(call) ==
  IF IsDir(call.fsBefore, call.templatePath)
  THEN PreOrder(call.fsBefore, call.templatePath,
                PathJoin(call.targetDir, call.variables.templateNameToPascalCase),
                call.variables)
  ELSE <<PathJoin(call.targetDir,
                  replaceTemplateVariables(PathBasename(call.templatePath), call.variables))>>

LiesWithin(p, dir) ==
  LET ps == Segments(PathResolve(p))
      ds == Segments(PathResolve(dir))
  IN  Len(ds) <= Len(ps) /\ SubSeq(ps, 1, Len(ds)) = ds

\* C26: isPathWithinDirectory answers true exactly for the paths that
\* resolve to the allowed directory or to a place inside it
C26_WithinIffInside ==
  sample.pc = "checked" =>
    (sample.within <=> LiesWithin(sample.filePath, sample.allowedDir))

\* the directory every output of call is to stay in: the container for a
\* directory template, targetDir for a file template
OutputRoot(call) ==
  IF call.templatePath # "" /\ IsDir(call.fsBefore, call.templatePath)
  THEN Container(call) ELSE call.targetDir

\* C27: whatever targetName is, every path a call records or writes lies
\* below its output root, and every directory it creates is the root or
\* lies below it
C27_OutputsStayInside ==
  \A c \in CallIds :
    Started(c) =>
      /\ \A r \in Range(Recorded(c)) : Below(r.path, OutputRoot(calls[c]))
      /\ \A w \in Range(calls[c].writes) : Below(w.path, OutputRoot(calls[c]))
      /\ \A i \in 1..Len(calls[c].ops) :
           (calls[c].ops[i].op = "mkdir" /\ calls[c].ops[i].ok)
           => LiesWithin(calls[c].ops[i].path, OutputRoot(calls[c]))

\* C28: when a call that is not a dry run has returned or failed, every
\* path of the list of generated files was written by that call
C28_ListedFilesWereWritten ==
  \A c \in CallIds :
    (calls[c].pc \in {"done", "failed"} /\ ~calls[c].dryRun)
    => \A r \in Range(calls[c].result) :
         \E w \in Range(calls[c].writes) : w.path = r.path

\* the paths of the list of generated files
ListedPaths == [i \in 1..Len(generatedFiles) |-> generatedFiles[i].path]

\* C29: once two calls into different output directories have both
\* completed, the list of generated files is the complete sequence of
\* entries of one of them
C29_CallsDoNotInterfere ==
  \A c, d \in CallIds :
    ( /\ c < d
      /\ calls[c].pc = "done" /\ calls[d].pc = "done"
      /\ calls[c].targetDir # calls[d].targetDir )
    => ListedPaths \in {ExpectedPaths(calls[c]), ExpectedPaths(calls[d])}

\* C30: once the user has chosen the preview and declined to proceed, the
\* file store is as executeGeneration found it: no directory and no file,
\* the configuration file included, was created or written; and while the
\* user has not confirmed a preview no call has written a file
C30_DeclinedPreviewLeavesStore ==
  /\ cli.pc = "cancelled" => fs = world.store
  /\ (cli.dryRun /\ ~cli.proceed) => \A c \in CallIds : calls[c].writes = <<>>

====
